---- MODULE Spec2Model ----
(***************************************************************************)
(* Authorization and data-access core of the N-Sine storefront:            *)
(*   - retryOperation, the profile cache and getUserProfile                *)
(*     (lib/supabase.ts),                                                  *)
(*   - the AuthProvider session state (contexts/AuthContext.tsx),          *)
(*   - the row-level policies of the store (the rebuild migration) and the  *)
(*     admin components that read and write products and orders.           *)
(* Time is in milliseconds, as Date.now() is.                              *)
(***************************************************************************)
EXTENDS Integers, Sequences, FiniteSets, Bags, TLC

(***************************************************************************)
(* Program constants                                                       *)
(***************************************************************************)
CACHE_DURATION == 5 * 60 * 1000

MAX_RETRIES == 3

RETRY_DELAY == 1000

(***************************************************************************)
(* Bounds of the model                                                     *)
(***************************************************************************)
\* the clock stops advancing past this instant
MaxNow == 300000


NULL == "null"

Users == {"u1", "u2"}

\* the getUserProfile calls that can be in flight together
Calls == {1, 2}

\* auth.users.email of a principal
Email(u) == IF u = "u1" THEN "u1@n-sine.com" ELSE "u2@n-sine.com"

\* raw_user_meta_data->>'full_name' of a principal (u2 signed up without one)
MetaFullName(u) == IF u = "u1" THEN "User One" ELSE NULL

\* a null profile (userProfile = null, data = null)
NoProfile ==
  [id |-> NULL, email |-> NULL, role |-> NULL, full_name |-> NULL,
   created_at |-> 0, updated_at |-> 0]

VARIABLES
  now,            \* Date.now() / the store's now()
  op,             \* retry harness: outcome of the k-th invocation of the operation
  rt,             \* retry harness: the running retryOperation call
  authUsers,      \* auth.users: the principals that exist
  trigPending,    \* principals whose on_auth_user_created trigger has not run yet
  user_profiles,  \* the user_profiles table, a bag of rows
  authUser,       \* principal of the client's current auth session, or NULL
  profileCache,   \* the Map userId -> {profile, timestamp}
  calls,          \* the getUserProfile calls in flight
  last,           \* history: the getUserProfile call that settled last
  healRace,       \* history: ids two calls in flight together found no row of
  lastFetch,      \* history: last profile getUserProfile fetched from the store, per id
  promoted,       \* history: ids of the rows create_admin_user made admin
  user,           \* AuthProvider state
  session,
  userProfile,
  loading,
  isAdmin,        \* the value memoized by useMemo
  memoDeps,       \* the dependency list of that memo at its last computation
  initPc,         \* position of initializeAuth
  signOutPc,      \* position of signOut
  products,       \* the products table, by id
  orders,         \* the orders table, by id
  lastWrite,      \* history: the last write a component sent to products
  listing,        \* history: the last select on products or orders and its response
  adminLogin,     \* the AdminLogin form: its running handler and what it shows
  profileOp,      \* history: the last updateUserProfile or clearProfileCache call
  signedOutUser,  \* history: the principal whose session the last signOut() ended
  formSubmit,     \* history: the last submit of the product form
  messages,       \* the messages table, by id
  messageList,    \* MessageCenter state `messages`: the rows fetched last
  selectedMessage,\* MessageCenter state: the message the detail modal shows
  messageOps,     \* the markAsRead / markAsUnread calls awaiting their update
  fetching,       \* the fetchMessages calls awaiting their select
  lastMark        \* history: the markAsRead / markAsUnread call that resumed last

retryVars == <<op, rt>>

storeVars == <<authUsers, trigPending, user_profiles, promoted>>

clientVars == <<authUser, profileCache, calls, lastFetch, last, healRace>>

sessionVars == <<user, session, userProfile, loading, isAdmin, memoDeps, initPc, signOutPc>>

catalogVars == <<products, orders, lastWrite, listing>>

messageVars == <<messages, messageList, selectedMessage, messageOps, fetching, lastMark>>

uiVars == <<adminLogin, profileOp, signedOutUser, formSubmit, messageVars>>

vars == <<now, retryVars, storeVars, clientVars, sessionVars, catalogVars, uiVars>>

(***************************************************************************)
(* retryOperation                                                          *)
(***************************************************************************)
\* variant of NextDelay: the delay is handed on as it is
NextDelay_Constant(delay) == delay

\* the doubled delay handed to the recursive call
NextDelay(delay) == delay * 2

\* variant of RetriesExhausted: the last retry is not made
RetriesExhausted_OneEarly(retries) == retries = 1

\* `if (retries === 0) throw error`
RetriesExhausted(retries) == retries = 0

\* the default arguments retries = MAX_RETRIES, delay = RETRY_DELAY
RetryDefaults == [retries |-> MAX_RETRIES, delay |-> RETRY_DELAY, wakeAt |-> 0]

\* await wait(delay): the timer is armed
RetryArm(r) == [r EXCEPT !.wakeAt = now + r.delay]

\* return retryOperation(operation, retries - 1, delay * 2)
RetryRecurse(r) == [r EXCEPT !.retries = r.retries - 1, !.delay = NextDelay(r.delay)]

\* outcomes of one invocation of the wrapped operation: it throws, or it
\* resolves to a response that carries data or an error object
OpOutcomes == {"throw", "data", "denied"}

(***************************************************************************)
(* The store: user_profiles, its policies, trigger and procedure           *)
(***************************************************************************)
\* user.user_metadata.full_name || user.email
\* COALESCE(new.raw_user_meta_data->>'full_name', new.email)
FullNameOrEmail(u) == IF MetaFullName(u) = NULL THEN Email(u) ELSE MetaFullName(u)

\* EXISTS (SELECT 1 FROM user_profiles WHERE id = auth.uid() AND role = 'admin'),
\* evaluated on the rows of the table
HasAdminRow(uid) ==
  \E r \in BagToSet(user_profiles) : r.id = uid /\ r.role = "admin"

\* "Users can view own profile", "Admins can view all profiles" (TO authenticated)
ProfilesSelectPolicy(uid, row) ==
  uid # NULL /\ (uid = row.id \/ HasAdminRow(uid))

\* "Users can insert their own profile" (TO authenticated, WITH CHECK)
ProfilesInsertCheck(uid, row) == uid # NULL /\ uid = row.id

\* id uuid PRIMARY KEY: a row with this id is already there
PkConflict(tbl, id) == \E r \in BagToSet(tbl) : r.id = id

RECURSIVE CopiesOf(_, _)
\* the number of rows of the table that are in the set S
CopiesOf(tbl, S) ==
  IF S = {} THEN 0
  ELSE LET r == CHOOSE x \in S : TRUE IN CopiesIn(r, tbl) + CopiesOf(tbl, S \ {r})

\* the number of rows with the id
RowCount(tbl, id) == CopiesOf(tbl, {r \in BagToSet(tbl) : r.id = id})

\* .from('user_profiles').select('*').eq('id', id).single() issued as uid
SelectSingleProfile(uid, id) ==
  LET vis == {r \in BagToSet(user_profiles) : r.id = id /\ ProfilesSelectPolicy(uid, r)}
  IN IF CopiesOf(user_profiles, vis) = 1
       THEN [data |-> CHOOSE r \in vis : TRUE, error |-> NULL]
       ELSE [data |-> NoProfile, error |-> "PGRST116"]

\* the row of .insert({ id, email, full_name, role: 'customer' }) with the
\* column defaults created_at = updated_at = now()
NewProfileRow(id, u) ==
  [id |-> id, email |-> Email(u), role |-> "customer", full_name |-> FullNameOrEmail(u),
   created_at |-> now, updated_at |-> now]

\* variant of InsertProfile: the table has no primary key
InsertProfile_NoPrimaryKey(uid, row) ==
  IF ~ProfilesInsertCheck(uid, row)
    THEN [data |-> NoProfile, error |-> "42501", table |-> user_profiles]
    ELSE [data |-> row, error |-> NULL, table |-> user_profiles (+) SetToBag({row})]

\* .from('user_profiles').insert(row).select().single() issued as uid:
\* the policy check comes first, then the primary key
InsertProfile(uid, row) ==
  IF ~ProfilesInsertCheck(uid, row)
    THEN [data |-> NoProfile, error |-> "42501", table |-> user_profiles]
    ELSE IF PkConflict(user_profiles, row.id)
      THEN [data |-> NoProfile, error |-> "23505", table |-> user_profiles]
      ELSE [data |-> row, error |-> NULL, table |-> user_profiles (+) SetToBag({row})]

\* INSERT ... ON CONFLICT (id) DO UPDATE SET email, full_name, updated_at
UpsertNewUser(tbl, u) ==
  LET Upd(r) == IF r.id = u
                  THEN [r EXCEPT !.email = Email(u), !.full_name = FullNameOrEmail(u),
                                 !.updated_at = now]
                  ELSE r
  IN IF PkConflict(tbl, u)
       THEN [n \in {Upd(r) : r \in BagToSet(tbl)} |->
               CopiesOf(tbl, {r \in BagToSet(tbl) : Upd(r) = n})]
       ELSE tbl (+) SetToBag({NewProfileRow(u, u)})

\* UPDATE user_profiles SET role = 'admin' WHERE email = user_email
SetAdminByEmail(tbl, email) ==
  LET Upd(r) == IF r.email = email THEN [r EXCEPT !.role = "admin"] ELSE r
  IN [n \in {Upd(r) : r \in BagToSet(tbl)} |->
        CopiesOf(tbl, {r \in BagToSet(tbl) : Upd(r) = n})]

\* the auth subsystem creates a principal; the AFTER INSERT trigger on
\* auth.users is due (the client treats it as asynchronous: signUp waits
\* "a moment for the trigger to create the profile")
auth_signUp(u) ==
  /\ u \notin authUsers
  /\ authUsers' = authUsers \cup {u}
  /\ trigPending' = trigPending \cup {u}
  /\ UNCHANGED <<now, retryVars, user_profiles, promoted, clientVars, sessionVars, catalogVars, uiVars>>

\* trigger on_auth_user_created -> handle_new_user()
handle_new_user(u) ==
  /\ u \in trigPending
  /\ trigPending' = trigPending \ {u}
  /\ user_profiles' = UpsertNewUser(user_profiles, u)
  /\ UNCHANGED <<now, retryVars, authUsers, promoted, clientVars, sessionVars, catalogVars, uiVars>>

\* rpc create_admin_user(user_email), SECURITY DEFINER
create_admin_user(email) ==
  /\ \E r \in BagToSet(user_profiles) : r.email = email
  /\ user_profiles' = SetAdminByEmail(user_profiles, email)
  /\ promoted' = promoted \cup {r.id : r \in {x \in BagToSet(user_profiles) : x.email = email}}
  /\ UNCHANGED <<now, retryVars, authUsers, trigPending, clientVars, sessionVars, catalogVars, uiVars>>

(***************************************************************************)
(* Time                                                                    *)
(***************************************************************************)
\* steps of the clock: just short of the cache duration, and exactly it
TickSteps == {CACHE_DURATION - 1, CACHE_DURATION}

\* instants at which an armed retry timer fires
WakeTimes == IF rt.pc = "wait" THEN {rt.retry.wakeAt} ELSE {}

\* time passes up to one of the instants
Elapse(instants) ==
  /\ \E t \in instants :
       /\ t > now
       /\ t <= MaxNow
       /\ now' = t
  /\ UNCHANGED <<retryVars, storeVars, clientVars, sessionVars, catalogVars, uiVars>>

Tick == Elapse({now + d : d \in TickSteps} \cup WakeTimes)


(***************************************************************************)
(* retryOperation, run on its own with an operation of known behaviour     *)
(***************************************************************************)
IdleRetry ==
  [pc |-> "idle", retries0 |-> 0, retry |-> RetryDefaults, invocations |-> 0,
   times |-> <<>>, out |-> <<"none", 0>>]

\* variant of Caught: a response that carries an error is taken as a throw
Caught_ErrorResponse(outcome) == outcome \in {"throw", "denied"}

\* what the catch clause around `await operation()` receives: a rejection
\* of the promise; a response { data: null, error } is a resolved value
Caught(outcome) == outcome = "throw"

\* try { return await operation() } catch (error) { if (retries === 0) throw error ... }
retryOperation_invoke ==
  /\ rt.pc = "call"
  /\ LET k == rt.invocations + 1
         r == [rt EXCEPT !.invocations = k, !.times = Append(rt.times, now)]
     IN
       /\ k \in DOMAIN op
       /\ IF ~Caught(op[k])
            THEN rt' = [r EXCEPT !.pc = "returned", !.out = <<op[k], k>>]
            ELSE IF RetriesExhausted(rt.retry.retries)
                   THEN rt' = [r EXCEPT !.pc = "thrown", !.out = <<"error", k>>]
                   ELSE rt' = [r EXCEPT !.pc = "wait", !.retry = RetryArm(rt.retry)]
  /\ UNCHANGED <<now, op, storeVars, clientVars, sessionVars, catalogVars, uiVars>>

\* the timer of wait(delay) fired: return retryOperation(operation, retries - 1, delay * 2)
retryOperation_resume ==
  /\ rt.pc = "wait"
  /\ now >= rt.retry.wakeAt
  /\ rt' = [rt EXCEPT !.pc = "call", !.retry = RetryRecurse(rt.retry)]
  /\ UNCHANGED <<now, op, storeVars, clientVars, sessionVars, catalogVars, uiVars>>

(***************************************************************************)
(* The profile cache and getUserProfile                                    *)
(***************************************************************************)
IdleCall ==
  [pc |-> "idle", userId |-> NULL, caller |-> NULL, readError |-> NULL, user |-> NULL,
   \* history: the selects on user_profiles the call has issued
   reads |-> 0,
   \* history: a row with the id existed when the select ran
   rowAtRead |-> FALSE]

\* history: how a call settled, the selects it had issued, and the parity
\* of the number of calls settled so far
NoReturn ==
  [userId |-> NULL, outcome |-> "none", result |-> NoProfile, error |-> NULL,
   fromCache |-> FALSE, reads |-> 0, parity |-> 0]

Returned(rec, profile, fromCache) ==
  [userId |-> rec.userId, outcome |-> "returned", result |-> profile, error |-> NULL,
   fromCache |-> fromCache, reads |-> rec.reads, parity |-> 1 - last.parity]

\* variant of Threw: a new error is thrown in place of the one received
Threw_Generic(rec, error) ==
  [userId |-> rec.userId, outcome |-> "threw", result |-> NoProfile,
   error |-> "Failed to fetch profile",
   fromCache |-> FALSE, reads |-> rec.reads, parity |-> 1 - last.parity]

Threw(rec, error) ==
  [userId |-> rec.userId, outcome |-> "threw", result |-> NoProfile, error |-> error,
   fromCache |-> FALSE, reads |-> rec.reads, parity |-> 1 - last.parity]

\* variant of CacheFresh: the timestamp is compared, not the age
CacheFresh_Absolute(userId) ==
  /\ userId \in DOMAIN profileCache
  /\ profileCache[userId].timestamp < CACHE_DURATION

\* variant of CacheFresh: the duration is taken in seconds
CacheFresh_Seconds(userId) ==
  /\ userId \in DOMAIN profileCache
  /\ now - profileCache[userId].timestamp < 5 * 60

\* variant of CacheFresh: an entry of exactly the duration's age is served
CacheFresh_Inclusive(userId) ==
  /\ userId \in DOMAIN profileCache
  /\ now - profileCache[userId].timestamp <= CACHE_DURATION

\* cached && Date.now() - cached.timestamp < CACHE_DURATION
CacheFresh(userId) ==
  /\ userId \in DOMAIN profileCache
  /\ now - profileCache[userId].timestamp < CACHE_DURATION

\* profileCache.set(userId, { profile, timestamp: Date.now() })
CacheSet(userId, profile) ==
  [u \in DOMAIN profileCache \cup {userId} |->
     IF u = userId THEN [profile |-> profile, timestamp |-> now] ELSE profileCache[u]]

\* variant of CacheAfterInsert: the response is cached before insertError is
\* looked at
CacheAfterInsert_Unchecked(userId, resp) == CacheSet(userId, resp.data)

\* if (insertError) throw insertError; comes before
\* profileCache.set(userId, { profile: newProfile, timestamp: Date.now() })
CacheAfterInsert(userId, resp) ==
  IF resp.error # NULL THEN profileCache ELSE CacheSet(userId, resp.data)

\* the call past the cache check, about to select the profile
StartedCall(userId, caller) ==
  [IdleCall EXCEPT !.pc = "read", !.userId = userId, !.caller = caller]

\* variant of MemoDepsOf: an empty dependency list
MemoDepsOf_Empty(up) == NULL

\* isAdmin = useMemo(() => userProfile?.role === 'admin', [userProfile?.role])
MemoDepsOf(up) == up.role

ComputeIsAdmin(up) == up.role = "admin"

\* a render with userProfile = up: the memo is recomputed when its
\* dependency list changed
UseMemo(up) ==
  /\ isAdmin' = IF MemoDepsOf(up) # memoDeps THEN ComputeIsAdmin(up) ELSE isAdmin
  /\ memoDeps' = MemoDepsOf(up)

\* variant of loadUserProfile_settle: there is no finally clause
loadUserProfile_settle_NoFinally(ret) ==
  LET up == IF ret.outcome = "returned" THEN ret.result ELSE NoProfile IN
    /\ userProfile' = up
    /\ loading' = loading
    /\ UseMemo(up)

\* variant of loadUserProfile_settle: the catch leaves userProfile as it is
loadUserProfile_settle_KeepOnThrow(ret) ==
  LET up == IF ret.outcome = "returned" THEN ret.result ELSE userProfile IN
    /\ userProfile' = up
    /\ loading' = FALSE
    /\ UseMemo(up)

\* loadUserProfile after `await getUserProfile(userId)`:
\* setUserProfile(profile) or, in catch, setUserProfile(null); finally setLoading(false)
loadUserProfile_settle(ret) ==
  LET up == IF ret.outcome = "returned" THEN ret.result ELSE NoProfile IN
    /\ userProfile' = up
    /\ loading' = FALSE
    /\ UseMemo(up)

\* the call returns or throws; the awaiting loadUserProfile continues
SettleCall(c, ret) ==
  /\ calls' = [calls EXCEPT ![c] = IdleCall]
  /\ last' = ret
  /\ IF calls[c].caller = "load"
       THEN loadUserProfile_settle(ret) /\ UNCHANGED <<user, session, initPc, signOutPc>>
       ELSE UNCHANGED sessionVars

\* the slot a new call takes: the first one with no call in flight
FreeCalls == {c \in Calls : calls[c].pc = "idle"}

FreeCall == IF FreeCalls = {} THEN 0 ELSE CHOOSE c \in FreeCalls : \A d \in FreeCalls : c <= d

\* getUserProfile(userId) called by some component
getUserProfile_start(c, userId) ==
  /\ c = FreeCall
  /\ IF CacheFresh(userId)
       THEN /\ last' = Returned([userId |-> userId, reads |-> 0], profileCache[userId].profile, TRUE)
            /\ UNCHANGED calls
       ELSE /\ calls' = [calls EXCEPT ![c] = StartedCall(userId, "direct")]
            /\ UNCHANGED last
  /\ UNCHANGED <<now, retryVars, storeVars, authUser, profileCache, lastFetch,
                 healRace, sessionVars, catalogVars, uiVars>>

\* call d found no row of the id and has not finished its insert
Healing(d, id) ==
  calls[d].userId = id /\ calls[d].pc \in {"getUser", "insert"} /\ ~calls[d].rowAtRead

\* the select resolves with { data, error } under the row-level policies
getUserProfile_read(c) ==
  /\ calls[c].pc = "read"
  /\ LET resp == SelectSingleProfile(authUser, calls[c].userId)
         id == calls[c].userId
     IN IF resp.error = NULL
          THEN /\ profileCache' = CacheSet(id, resp.data)
               /\ lastFetch' = [lastFetch EXCEPT ![id] =
                                  [valid |-> TRUE, profile |-> resp.data, at |-> now]]
               /\ SettleCall(c, Returned([calls[c] EXCEPT !.reads = @ + 1], resp.data, FALSE))
               /\ UNCHANGED healRace
          ELSE \* error.code === 'PGRST116': await supabase.auth.getUser()
               /\ calls' = [calls EXCEPT ![c].pc = "getUser",
                                         ![c].readError = resp.error,
                                         ![c].reads = @ + 1,
                                         ![c].rowAtRead = PkConflict(user_profiles, id)]
               /\ healRace' = IF /\ ~PkConflict(user_profiles, id)
                                  /\ \E d \in Calls \ {c} : Healing(d, id)
                                THEN healRace \cup {id} ELSE healRace
               /\ UNCHANGED <<profileCache, lastFetch, last, sessionVars>>
  /\ UNCHANGED <<now, retryVars, storeVars, authUser, catalogVars, uiVars>>

\* the select resolves with an error that is not PGRST116: throw error
getUserProfile_readFails(c) ==
  /\ calls[c].pc = "read"
  /\ SettleCall(c, Threw([calls[c] EXCEPT !.reads = @ + 1], "500"))
  /\ UNCHANGED <<now, retryVars, storeVars, authUser, profileCache, lastFetch,
                 healRace, catalogVars, uiVars>>

\* const { data: user } = await supabase.auth.getUser(); if (user?.user) ...
\* else throw error
getUserProfile_getUser(c) ==
  /\ calls[c].pc = "getUser"
  /\ IF authUser # NULL
       THEN /\ calls' = [calls EXCEPT ![c].pc = "insert", ![c].user = authUser]
            /\ UNCHANGED <<last, sessionVars>>
       ELSE SettleCall(c, Threw(calls[c], calls[c].readError))
  /\ UNCHANGED <<now, retryVars, storeVars, authUser, profileCache, lastFetch,
                 healRace, catalogVars, uiVars>>

\* the insert of the default profile resolves with { data, error }
getUserProfile_insert(c) ==
  /\ calls[c].pc = "insert"
  /\ LET id == calls[c].userId
         resp == InsertProfile(authUser, NewProfileRow(id, calls[c].user))
     IN /\ user_profiles' = resp.table
        /\ profileCache' = CacheAfterInsert(id, resp)
        /\ IF resp.error # NULL
             THEN /\ SettleCall(c, Threw(calls[c], resp.error))
                  /\ UNCHANGED lastFetch
             ELSE /\ lastFetch' = [lastFetch EXCEPT ![id] =
                                     [valid |-> TRUE, profile |-> resp.data, at |-> now]]
                  /\ SettleCall(c, Returned(calls[c], resp.data, FALSE))
  /\ UNCHANGED <<now, retryVars, authUsers, trigPending, promoted, authUser, healRace, catalogVars, uiVars>>

\* supabase.auth.signInWithPassword succeeds: the client holds a session of u
auth_signIn(u) ==
  /\ u \in authUsers
  /\ authUser # u
  /\ authUser' = u
  /\ UNCHANGED <<now, retryVars, storeVars, profileCache, calls, lastFetch,
                 last, healRace, sessionVars, catalogVars, uiVars>>

\* supabase.auth.signOut(): the client holds no session
auth_signOut ==
  /\ authUser # NULL
  /\ authUser' = NULL
  /\ UNCHANGED <<now, retryVars, storeVars, profileCache, calls, lastFetch,
                 last, healRace, sessionVars, catalogVars, uiVars>>

(***************************************************************************)
(* AuthProvider (contexts/AuthContext.tsx)                                 *)
(***************************************************************************)
\* loadUserProfile(userId) up to the first await of getUserProfile; on a
\* cache hit the call returns at once and loadUserProfile runs to its end
loadUserProfile(userId) ==
  /\ FreeCall # 0
  /\ IF CacheFresh(userId)
       THEN LET ret == Returned([userId |-> userId, reads |-> 0], profileCache[userId].profile, TRUE)
            IN /\ last' = ret
               /\ loadUserProfile_settle(ret)
               /\ UNCHANGED calls
       ELSE /\ calls' = [calls EXCEPT ![FreeCall] = StartedCall(userId, "load")]
            /\ UNCHANGED <<last, userProfile, loading, isAdmin, memoDeps>>

\* initializeAuth: getSession() resolves with the persisted session;
\* setSession, setUser, then loadUserProfile or setLoading(false)
initializeAuth ==
  /\ initPc = "getSession"
  /\ initPc' = "done"
  /\ session' = authUser
  /\ user' = authUser
  /\ IF authUser # NULL
       THEN loadUserProfile(authUser)
       ELSE /\ loading' = FALSE
            /\ UNCHANGED <<calls, last, userProfile, isAdmin, memoDeps>>
  /\ UNCHANGED <<now, retryVars, storeVars, authUser, profileCache, lastFetch, healRace,
                 signOutPc, catalogVars, uiVars>>

\* initializeAuth: getSession() throws; catch: setLoading(false)
initializeAuth_fails ==
  /\ initPc = "getSession"
  /\ initPc' = "done"
  /\ loading' = FALSE
  /\ UNCHANGED <<now, retryVars, storeVars, clientVars, user, session, userProfile, isAdmin,
                 memoDeps, signOutPc, catalogVars, uiVars>>

\* variant of AuthStateChanged: user and session are set and nothing else
AuthStateChanged_SetOnly(s) ==
  /\ session' = s
  /\ user' = s
  /\ UNCHANGED <<calls, last, userProfile, loading, isAdmin, memoDeps>>

\* the callback of onAuthStateChange, run with the session of principal s
\* (sign-in, token refresh) or with no session (s = NULL, sign-out)
AuthStateChanged(s) ==
  /\ session' = s
  /\ user' = s
  /\ IF s # NULL
       THEN loadUserProfile(s)
       ELSE /\ userProfile' = NoProfile
            /\ loading' = FALSE
            /\ UseMemo(NoProfile)
            /\ UNCHANGED <<calls, last>>

\* the auth subsystem reports a sign-in or a token refresh of principal s
onAuthStateChange(s) ==
  /\ s \in authUsers
  /\ authUser' = s
  /\ AuthStateChanged(s)
  /\ UNCHANGED <<now, retryVars, storeVars, profileCache, lastFetch, healRace, initPc,
                 signOutPc, catalogVars, uiVars>>

\* signOut: await supabase.auth.signOut(), which reports the sign-out to
\* the onAuthStateChange callback
signOut ==
  /\ signOutPc = "idle"
  /\ authUser # NULL
  /\ signOutPc' = "await"
  /\ authUser' = NULL
  /\ AuthStateChanged(NULL)
  /\ signedOutUser' = authUser
  /\ UNCHANGED <<now, retryVars, storeVars, profileCache, lastFetch, healRace, initPc, catalogVars,
                 adminLogin, profileOp, formSubmit,
                 messageVars>>

\* signOut after the await: setUserProfile(null)
signOut_resume ==
  /\ signOutPc = "await"
  /\ signOutPc' = "idle"
  /\ userProfile' = NoProfile
  /\ UseMemo(NoProfile)
  /\ UNCHANGED <<now, retryVars, storeVars, clientVars, user, session, loading, initPc, catalogVars, uiVars>>

\* refreshProfile: if (user) await loadUserProfile(user.id)
refreshProfile ==
  /\ user # NULL
  /\ loadUserProfile(user)
  /\ UNCHANGED <<now, retryVars, storeVars, authUser, profileCache, lastFetch, healRace,
                 user, session, initPc, signOutPc, catalogVars, uiVars>>

(***************************************************************************)
(* Products and orders: tables, policies, and the components that use them *)
(***************************************************************************)
ProductIds == {"p1", "p2"}

OrderIds == {"o0", "o1", "o2"}

OrderStatuses == {"pending", "shipped"}

\* no row
NoProduct == [id |-> NULL, is_active |-> FALSE, updated_at |-> 0]

NoWrite ==
  [op |-> "none", id |-> NULL, by |-> NULL, byAdmin |-> FALSE, error |-> NULL,
   before |-> NoProduct, after |-> NoProduct, at |-> 0, alert |-> "none"]

NoListing ==
  [table |-> "none", by |-> NULL, byAdmin |-> FALSE, onlyActive |-> FALSE,
   statusFilter |-> NULL, rows |-> {},
   \* history: the rows the query asked for that the policies withheld
   withheld |-> {}]

\* the role the request runs as: authenticated with a session, anon without
IsAdminSession(uid) == uid # NULL /\ HasAdminRow(uid)

\* variant of ProductsSelectPolicy: USING (true)
ProductsSelectPolicy_All(uid, row) == TRUE

\* SELECT on products: "Anyone can read active products" (TO public),
\* "Admins can read all products", "Admins can manage products" (TO authenticated)
ProductsSelectPolicy(uid, row) == row.is_active \/ IsAdminSession(uid)

\* INSERT, UPDATE, DELETE on products: "Admins can manage products"
\* (FOR ALL; its USING expression is its WITH CHECK too)
ProductsManagePolicy(uid, row) == IsAdminSession(uid)

\* variant of OrdersSelectPolicy: every authenticated principal reads every order
OrdersSelectPolicy_Authenticated(uid, row) == uid # NULL

\* SELECT on orders: "Users can view own orders", "Admins can manage all orders"
\* (both TO authenticated)
OrdersSelectPolicy(uid, row) ==
  uid # NULL /\ (row.customer_id = uid \/ HasAdminRow(uid))

\* UPDATE, DELETE on orders: "Admins can manage all orders"
OrdersManagePolicy(uid, row) == IsAdminSession(uid)

\* INSERT on orders: "Anyone can create orders" WITH CHECK (true)
OrdersInsertCheck(uid, row) == TRUE

\* the row of the table with the id, or no row
ProductRow(id) == IF id \in DOMAIN products THEN products[id] ELSE NoProduct

\* UPDATE products SET is_active, updated_at WHERE id = ... issued as uid:
\* the rows the policies hide from uid are not updated, and that is no error
UpdateProduct(uid, id, patch) ==
  LET hit == {p \in DOMAIN products :
                /\ p = id
                /\ ProductsSelectPolicy(uid, products[p])
                /\ ProductsManagePolicy(uid, products[p])}
  IN [error |-> NULL,
      table |-> [p \in DOMAIN products |->
                   IF p \in hit
                     THEN [products[p] EXCEPT !.is_active = patch.is_active,
                                              !.updated_at = patch.updated_at]
                     ELSE products[p]]]

\* INSERT INTO products issued as uid: a row the policy rejects is an error
InsertProduct(uid, row) ==
  IF ProductsManagePolicy(uid, row)
    THEN [error |-> NULL,
          table |-> [p \in DOMAIN products \cup {row.id} |->
                       IF p = row.id THEN row ELSE products[p]]]
    ELSE [error |-> "42501", table |-> products]

\* DELETE FROM products WHERE id = ... issued as uid
DeleteProduct(uid, id) ==
  LET hit == {p \in DOMAIN products :
                /\ p = id
                /\ ProductsSelectPolicy(uid, products[p])
                /\ ProductsManagePolicy(uid, products[p])}
  IN [error |-> NULL, table |-> [p \in DOMAIN products \ hit |-> products[p]]]

\* history of a write to products and of what the component told the user
WriteRecord(opName, id, resp) ==
  [op |-> opName, id |-> id, by |-> authUser, byAdmin |-> IsAdminSession(authUser),
   error |-> resp.error, before |-> ProductRow(id),
   after |-> IF id \in DOMAIN resp.table THEN resp.table[id] ELSE NoProduct,
   at |-> now,
   alert |-> IF resp.error = NULL THEN "success" ELSE "failed"]

\* handleToggleActive(product): product is the component's copy of the row
handleToggleActive(id, is_active) ==
  LET newStatus == ~is_active
      resp == UpdateProduct(authUser, id, [is_active |-> newStatus, updated_at |-> now])
  IN /\ products' = resp.table
     /\ lastWrite' = WriteRecord("update", id, resp)
     /\ UNCHANGED <<now, retryVars, storeVars, clientVars, sessionVars, uiVars, orders, listing>>

\* ProductForm onSubmit for an existing product: update(productData).eq('id', product.id)
ProductForm_onSubmit_update(id, is_active) ==
  LET resp == UpdateProduct(authUser, id, [is_active |-> is_active, updated_at |-> now])
  IN /\ products' = resp.table
     /\ lastWrite' = WriteRecord("update", id, resp)
     /\ UNCHANGED <<now, retryVars, storeVars, clientVars, sessionVars, uiVars, orders, listing>>

\* gen_random_uuid(): an id no row has
NewProductId == CHOOSE p \in ProductIds \ DOMAIN products : TRUE

\* ProductForm onSubmit for a new product: insert([productData])
ProductForm_onSubmit_insert(is_active) ==
  /\ ProductIds \ DOMAIN products # {}
  /\ LET id == NewProductId
         resp == InsertProduct(authUser, [id |-> id, is_active |-> is_active,
                                          updated_at |-> now])
     IN /\ products' = resp.table
        /\ lastWrite' = WriteRecord("insert", id, resp)
  /\ UNCHANGED <<now, retryVars, storeVars, clientVars, sessionVars, uiVars, orders, listing>>

\* handleDelete(id, name), confirmed by the user
handleDelete(id) ==
  LET resp == DeleteProduct(authUser, id)
  IN /\ products' = resp.table
     /\ lastWrite' = WriteRecord("delete", id, resp)
     /\ UNCHANGED <<now, retryVars, storeVars, clientVars, sessionVars, uiVars, orders, listing>>

\* fetchProducts: select('*') with .eq('is_active', true) unless showInactive
fetchProducts(onlyActive) ==
  LET all == {products[p] : p \in DOMAIN products}
      rows == {r \in all : /\ ProductsSelectPolicy(authUser, r)
                           /\ (onlyActive => r.is_active)}
  IN /\ listing' = [NoListing EXCEPT !.table = "products", !.by = authUser,
                                     !.byAdmin = IsAdminSession(authUser),
                                     !.onlyActive = onlyActive, !.rows = rows,
                                     !.withheld = {r \in all \ rows :
                                                     onlyActive => r.is_active}]
     /\ UNCHANGED <<now, retryVars, storeVars, clientVars, sessionVars, uiVars, products, orders,
                    lastWrite>>

\* an order is placed for a customer (or for a guest, customer_id NULL)
orders_insert(customer_id) ==
  /\ OrderIds \ DOMAIN orders # {}
  /\ customer_id \in authUsers \cup {NULL}
  /\ LET id == CHOOSE o \in OrderIds \ DOMAIN orders : TRUE
         row == [id |-> id, customer_id |-> customer_id, status |-> "pending",
                 updated_at |-> now]
     IN /\ OrdersInsertCheck(authUser, row)
        /\ orders' = [o \in DOMAIN orders \cup {id} |-> IF o = id THEN row ELSE orders[o]]
  /\ UNCHANGED <<now, retryVars, storeVars, clientVars, sessionVars, uiVars, products, lastWrite,
                 listing>>

\* the rows .from('orders').select('*') gives to uid, with .eq('status', ...)
\* when a status filter is set
SelectOrders(uid, statusFilter) ==
  {r \in {orders[o] : o \in DOMAIN orders} :
     /\ OrdersSelectPolicy(uid, r)
     /\ (statusFilter # NULL => r.status = statusFilter)}

\* fetchOrders
fetchOrders(statusFilter) ==
  /\ listing' = [NoListing EXCEPT !.table = "orders", !.by = authUser,
                                  !.byAdmin = IsAdminSession(authUser),
                                  !.statusFilter = statusFilter,
                                  !.rows = SelectOrders(authUser, statusFilter),
                                  !.withheld =
                                     {r \in {orders[o] : o \in DOMAIN orders} :
                                        /\ r \notin SelectOrders(authUser, statusFilter)
                                        /\ (statusFilter # NULL =>
                                              r.status = statusFilter)}]
  /\ UNCHANGED <<now, retryVars, storeVars, clientVars, sessionVars, uiVars, products, orders,
                 lastWrite>>

\* updateOrderStatus(orderId, newStatus): the update, then fetchOrders()
\* with the component's filter
updateOrderStatus(orderId, newStatus, statusFilter) ==
  LET hit == {o \in DOMAIN orders :
                /\ o = orderId
                /\ OrdersSelectPolicy(authUser, orders[o])
                /\ OrdersManagePolicy(authUser, orders[o])}
      updated == [o \in DOMAIN orders |->
                    IF o \in hit
                      THEN [orders[o] EXCEPT !.status = newStatus, !.updated_at = now]
                      ELSE orders[o]]
      all == {updated[o] : o \in DOMAIN updated}
      rows == {r \in all : /\ OrdersSelectPolicy(authUser, r)
                           /\ (statusFilter # NULL => r.status = statusFilter)}
  IN /\ orders' = updated
     /\ listing' = [NoListing EXCEPT !.table = "orders", !.by = authUser,
                                     !.byAdmin = IsAdminSession(authUser),
                                     !.statusFilter = statusFilter,
                                     !.rows = rows,
                                     !.withheld =
                                        {r \in all \ rows :
                                           statusFilter # NULL => r.status = statusFilter}]
     /\ UNCHANGED <<now, retryVars, storeVars, clientVars, sessionVars, uiVars, products,
                    lastWrite>>

(***************************************************************************)
(* updateUserProfile and clearProfileCache (lib/supabase.ts)               *)
(***************************************************************************)
\* no field given
NoUpdates == [f \in {} |-> NULL]

\* the Partial<UserProfile> values a caller passes
ProfileUpdates == {NoUpdates, [role |-> "admin"], [full_name |-> "Renamed"]}

\* history: no updateUserProfile or clearProfileCache call yet; parity is
\* the parity of the number of such calls made so far
NoProfileOp ==
  [op |-> "none", userId |-> NULL, updates |-> NoUpdates, outcome |-> "none",
   result |-> NoProfile, error |-> NULL, parity |-> 0]

\* variant of UpdatePayload: updated_at is left out
UpdatePayload_NoStamp(updates) == updates

\* { ...updates, updated_at: new Date().toISOString() }
UpdatePayload(updates) ==
  [f \in DOMAIN updates \cup {"updated_at"} |->
     IF f = "updated_at" THEN now ELSE updates[f]]

\* the row after SET of the payload's columns
SetColumns(row, payload) ==
  [f \in DOMAIN row |-> IF f \in DOMAIN payload THEN payload[f] ELSE row[f]]

\* policy "Users can update own profile": FOR UPDATE TO authenticated
\* USING (auth.uid() = id)
ProfilesUpdatePolicy(uid, row) == uid # NULL /\ uid = row.id

\* .update(payload).eq('id', id).select().single() as principal uid:
\* rows the policy hides are not updated, and no row gives PGRST116
UpdateProfile(uid, id, payload) ==
  LET hit == {r \in BagToSet(user_profiles) : r.id = id /\ ProfilesUpdatePolicy(uid, r)}
      rest == BagToSet(user_profiles) \ hit
      new == {SetColumns(r, payload) : r \in hit}
  IN IF hit = {}
       THEN [data |-> NoProfile, error |-> "PGRST116", table |-> user_profiles]
       ELSE [data |-> CHOOSE n \in new : TRUE, error |-> NULL,
             table |-> [n \in rest \cup new |->
                          IF n \in rest THEN CopiesOf(user_profiles, {n})
                          ELSE CopiesOf(user_profiles, {r \in hit : SetColumns(r, payload) = n})]]

\* updateUserProfile(userId, updates): if (error) throw error;
\* if (data) profileCache.set(userId, { profile: data, timestamp: Date.now() });
\* return data.  With `fails` the request does not reach the table.
updateUserProfile(userId, updates, fails) ==
  /\ LET resp == IF fails
                   THEN [data |-> NoProfile, error |-> "500", table |-> user_profiles]
                   ELSE UpdateProfile(authUser, userId, UpdatePayload(updates))
         rec == [NoProfileOp EXCEPT !.op = "update", !.userId = userId, !.updates = updates,
                                    !.parity = 1 - profileOp.parity]
     IN /\ user_profiles' = resp.table
        /\ IF resp.error # NULL
             THEN /\ profileOp' = [rec EXCEPT !.outcome = "threw", !.error = resp.error]
                  /\ UNCHANGED profileCache
             ELSE /\ profileOp' = [rec EXCEPT !.outcome = "returned", !.result = resp.data]
                  /\ profileCache' = CacheSet(userId, resp.data)
  /\ UNCHANGED <<now, retryVars, authUsers, trigPending, promoted, authUser, calls, lastFetch,
                 last, healRace, sessionVars, catalogVars, adminLogin, signedOutUser,
                 formSubmit,
                 messageVars>>

\* variant of CacheWithout: every entry is removed whatever the argument
CacheWithout_All(userId) == [u \in {} |-> profileCache[u]]

\* if (userId) profileCache.delete(userId) else profileCache.clear()
CacheWithout(userId) ==
  IF userId # NULL
    THEN [u \in DOMAIN profileCache \ {userId} |-> profileCache[u]]
    ELSE [u \in {} |-> profileCache[u]]

\* clearProfileCache(userId?)
clearProfileCache(userId) ==
  /\ profileCache' = CacheWithout(userId)
  /\ profileOp' = [NoProfileOp EXCEPT !.op = "clear", !.userId = userId,
                                      !.parity = 1 - profileOp.parity]
  /\ UNCHANGED <<now, retryVars, storeVars, authUser, calls, lastFetch, last, healRace,
                 sessionVars, catalogVars, adminLogin, signedOutUser, formSubmit,
                 messageVars>>

(***************************************************************************)
(* AuthProvider.signIn / signUp and the AdminLogin form                    *)
(***************************************************************************)
\* the form at rest; op, rejected, outcome, resultError and rpcCalled are
\* history of the last signIn / signUp call the form made
NoAdminLogin ==
  [pc |-> "idle", u |-> NULL, error |-> NULL, success |-> FALSE, navigated |-> FALSE,
   op |-> "none", rejected |-> FALSE, outcome |-> "none", resultError |-> NULL,
   rpcCalled |-> FALSE,
   \* history of signUp: the verification selects it issued, the row it
   \* tried to insert and the error the insert got
   reads |-> 0, insertRow |-> NoProfile, insertError |-> NULL]

\* signIn: const result = await supabase.auth.signInWithPassword(...); return result
signIn_result(accepted) ==
  [outcome |-> "returned",
   resultError |-> IF accepted THEN NULL ELSE "invalid_credentials"]

\* signUp when supabase.auth.signUp resolves with an error:
\* if (result.error) throw result.error; catch (error) { ...; throw error }
signUp_rejected == [outcome |-> "threw", resultError |-> NULL]

\* onLogin: const { error } = await signIn(...);
\* if (error) setError(error.message) else navigate('/admin/dashboard');
\* catch: setError('An unexpected error occurred')
onLogin(u, accepted) ==
  /\ adminLogin.pc = "idle"
  /\ accepted => u \in authUsers
  /\ LET res == signIn_result(accepted) IN
       /\ authUser' = IF accepted THEN u ELSE authUser
       /\ adminLogin' =
            [NoAdminLogin EXCEPT
               !.u = u, !.op = "signIn", !.rejected = ~accepted,
               !.outcome = res.outcome, !.resultError = res.resultError,
               !.error = IF res.outcome = "threw" THEN "An unexpected error occurred"
                         ELSE res.resultError,
               !.navigated = (res.outcome = "returned" /\ res.resultError = NULL)]
  /\ UNCHANGED <<now, retryVars, storeVars, profileCache, calls, lastFetch, last, healRace,
                 sessionVars, catalogVars, profileOp, signedOutUser, formSubmit,
                 messageVars>>

\* onSignup up to the first await inside signUp, when the auth subsystem
\* rejects the sign-up: signUp throws, and onSignup's outer catch shows
\* 'An unexpected error occurred'
onSignup_rejected(u) ==
  /\ adminLogin.pc = "idle"
  /\ LET res == signUp_rejected IN
       adminLogin' =
         [NoAdminLogin EXCEPT
            !.u = u, !.op = "signUp", !.rejected = TRUE,
            !.outcome = res.outcome, !.resultError = res.resultError,
            !.error = IF res.outcome = "threw" THEN "An unexpected error occurred"
                      ELSE res.resultError]
  /\ UNCHANGED <<now, retryVars, storeVars, clientVars, sessionVars, catalogVars,
                 profileOp, signedOutUser, formSubmit,
                 messageVars>>

\* onSignup when the auth subsystem accepts the sign-up: the principal is
\* created (its trigger is due), with a session or, when the email has to be
\* confirmed first, without one; signUp then waits 1000 ms
onSignup_accepted(u, withSession) ==
  /\ adminLogin.pc = "idle"
  /\ u \notin authUsers
  /\ authUsers' = authUsers \cup {u}
  /\ trigPending' = trigPending \cup {u}
  /\ authUser' = IF withSession THEN u ELSE authUser
  /\ adminLogin' = [NoAdminLogin EXCEPT !.pc = "wait", !.u = u, !.op = "signUp"]
  /\ UNCHANGED <<now, retryVars, user_profiles, promoted, profileCache, calls, lastFetch,
                 last, healRace, sessionVars, catalogVars, profileOp, signedOutUser,
                 formSubmit,
                 messageVars>>

\* signUp after the wait: select('*').eq('id', result.data.user.id).single();
\* if (profileError || !profile) the profile is inserted by hand, else
\* signUp returns the result
signUp_verify ==
  /\ adminLogin.pc = "wait"
  /\ LET resp == SelectSingleProfile(authUser, adminLogin.u) IN
       adminLogin' =
         IF resp.error # NULL
           THEN [adminLogin EXCEPT !.pc = "insert", !.reads = @ + 1]
           ELSE [adminLogin EXCEPT !.pc = "rpc", !.reads = @ + 1, !.outcome = "returned"]
  /\ UNCHANGED <<now, retryVars, storeVars, clientVars, sessionVars, catalogVars,
                 profileOp, signedOutUser, formSubmit,
                 messageVars>>

\* variant of signUp_row: the row is given the admin role
signUp_row_Admin(u) == [NewProfileRow(u, u) EXCEPT !.role = "admin"]

\* { id: result.data.user.id, email, full_name: fullName || email,
\*   role: 'customer' }
signUp_row(u) == NewProfileRow(u, u)

\* signUp: insert({ id, email, full_name, role: 'customer' }); an insertError
\* is logged only; return result
signUp_insert ==
  /\ adminLogin.pc = "insert"
  /\ LET resp == InsertProfile(authUser, signUp_row(adminLogin.u)) IN
       /\ user_profiles' = resp.table
       /\ adminLogin' = [adminLogin EXCEPT !.pc = "rpc", !.outcome = "returned",
                                           !.insertRow = signUp_row(adminLogin.u),
                                           !.insertError = resp.error]
  /\ UNCHANGED <<now, retryVars, authUsers, trigPending, promoted, clientVars, sessionVars,
                 catalogVars, profileOp, signedOutUser, formSubmit,
                 messageVars>>

\* onSignup after signUp returned: authData.user is set;
\* try { await createAdminUser(data.email); setSuccess(...) }
\* catch { setError('Account created but failed to set admin role...') }
onSignup_createAdminUser(rpcFails) ==
  /\ adminLogin.pc = "rpc"
  /\ IF rpcFails
       THEN /\ adminLogin' = [adminLogin EXCEPT !.pc = "idle", !.rpcCalled = TRUE,
                                !.error = "Account created but failed to set admin role"]
            /\ UNCHANGED <<user_profiles, promoted>>
       ELSE /\ user_profiles' = SetAdminByEmail(user_profiles, Email(adminLogin.u))
            /\ promoted' = promoted \cup
                 {r.id : r \in {x \in BagToSet(user_profiles) : x.email = Email(adminLogin.u)}}
            /\ adminLogin' = [adminLogin EXCEPT !.pc = "idle", !.rpcCalled = TRUE,
                                                !.success = TRUE]
  /\ UNCHANGED <<now, retryVars, authUsers, trigPending, clientVars, sessionVars,
                 catalogVars, profileOp, signedOutUser, formSubmit,
                 messageVars>>

(***************************************************************************)
(* ProductForm: productSchema and handleSubmit(onSubmit)                   *)
(***************************************************************************)
\* a number an input registered with valueAsNumber hands over
Num(v) == [isNaN |-> FALSE, value |-> v]

\* what an emptied number input hands over
NaN == [isNaN |-> TRUE, value |-> 0]

\* z.number(): NaN is not accepted
IsNumber(x) == ~x.isNaN

\* input the schema accepts; price is in hundredths and stock in tenths, so
\* that 0.01 and a fractional stock can be written
GoodData ==
  [name |-> "Lamp", description |-> "A brass desk lamp", price |-> Num(1), stock |-> Num(0),
   category_id |-> "c1", is_active |-> TRUE]

\* the values the form's inputs are given: good input, input with one field
\* spoilt, and input with every field spoilt
FormData ==
  {[d EXCEPT !.is_active = a] :
     a \in BOOLEAN,
     d \in {GoodData,
            [GoodData EXCEPT !.price = Num(1999), !.stock = Num(30)],
            [GoodData EXCEPT !.name = ""],
            [GoodData EXCEPT !.description = "too short"],
            [GoodData EXCEPT !.price = NaN],
            [GoodData EXCEPT !.price = Num(0)],
            [GoodData EXCEPT !.price = Num(-100)],
            [GoodData EXCEPT !.stock = NaN],
            [GoodData EXCEPT !.stock = Num(5)],
            [GoodData EXCEPT !.stock = Num(-10)],
            [GoodData EXCEPT !.category_id = ""],
            [GoodData EXCEPT !.name = "", !.description = "", !.price = Num(0),
                             !.stock = Num(-10), !.category_id = ""]}}

NoSubmit ==
  [data |-> [name |-> "", description |-> "", price |-> NaN, stock |-> NaN,
             category_id |-> "", is_active |-> FALSE],
   product |-> NULL, valid |-> FALSE, sent |-> FALSE, parity |-> 0]

\* variant of productSchema: the description is not checked
productSchema_NoDescription(data) ==
  /\ Len(data.name) >= 1
  /\ IsNumber(data.price) /\ data.price.value >= 1
  /\ IsNumber(data.stock) /\ data.stock.value % 10 = 0 /\ data.stock.value >= 0
  /\ Len(data.category_id) >= 1

\* productSchema = z.object({ name: z.string().min(1), description:
\* z.string().min(10), price: z.number().min(0.01), stock:
\* z.number().int().min(0), category_id: z.string().min(1), ... })
productSchema(data) ==
  /\ Len(data.name) >= 1
  /\ Len(data.description) >= 10
  /\ IsNumber(data.price) /\ data.price.value >= 1
  /\ IsNumber(data.stock) /\ data.stock.value % 10 = 0 /\ data.stock.value >= 0
  /\ Len(data.category_id) >= 1

\* <form onSubmit={handleSubmit(onSubmit)}> with resolver
\* zodResolver(productSchema): onSubmit runs only with data the schema
\* accepts; it updates the product the form was opened for, or inserts a
\* new one when it was opened for none
ProductForm_handleSubmit(product, data) ==
  /\ product = NULL => ProductIds \ DOMAIN products # {}
  /\ LET valid == productSchema(data)
         id == IF product = NULL THEN NewProductId ELSE product
         row == [id |-> id, is_active |-> data.is_active, updated_at |-> now]
         resp == IF product = NULL
                   THEN InsertProduct(authUser, row)
                   ELSE UpdateProduct(authUser, id, row)
     IN /\ formSubmit' = [data |-> data, product |-> product, valid |-> valid,
                          sent |-> valid, parity |-> 1 - formSubmit.parity]
        /\ IF valid
             THEN /\ products' = resp.table
                  /\ lastWrite' = WriteRecord(IF product = NULL THEN "insert" ELSE "update",
                                              id, resp)
             ELSE UNCHANGED <<products, lastWrite>>
  /\ UNCHANGED <<now, retryVars, storeVars, clientVars, sessionVars, orders, listing,
                 adminLogin, profileOp, signedOutUser,
                 messageVars>>

(***************************************************************************)
(* MessageCenter: the messages table and the component's handlers           *)
(***************************************************************************)
MsgIds == {"m1", "m2"}

\* the calls the component may have awaiting a response together
MaxRequests == 2

MaxFetches == 1

\* selectedMessage = null
NoMessage == [id |-> NULL, is_read |-> FALSE]

\* INSERT INTO messages (..., is_read) VALUES (..., false), (..., true), ...
SampleMessages == [m \in MsgIds |-> [id |-> m, is_read |-> (m = "m2")]]

\* "Admins can manage messages" (FOR ALL TO authenticated)
MessagesManagePolicy(uid) == uid # NULL /\ HasAdminRow(uid)

\* .from('messages').update({ is_read }).eq('id', messageId) issued as uid:
\* the rows the policy hides are left alone, without an error
UpdateMessage(uid, messageId, is_read) ==
  [m \in DOMAIN messages |->
     IF m = messageId /\ MessagesManagePolicy(uid)
       THEN [messages[m] EXCEPT !.is_read = is_read]
       ELSE messages[m]]

\* .from('messages').select('*') issued as uid
SelectMessages(uid) ==
  [m \in {x \in DOMAIN messages : MessagesManagePolicy(uid)} |-> messages[m]]

\* a markAsRead / markAsUnread call at its await: its argument, the
\* selectedMessage of the render its closure was made in, and (history)
\* what called it
MarkRequest(kind, messageId, sel, cause) ==
  [kind |-> kind, id |-> messageId, sel |-> sel, cause |-> cause]

NoMark == [kind |-> "none", id |-> NULL, cause |-> NULL, failed |-> FALSE, parity |-> 0]

\* useEffect(() => { if (!message.is_read) markAsRead(message.id) }, [message]):
\* the calls the modal makes when it is rendered with a new message object
MessageDetailModal_effect(message, cause) ==
  IF message # NoMessage /\ ~message.is_read
    THEN {MarkRequest("markAsRead", message.id, message, cause)}
    ELSE {}

\* the eye button of a row: onClick={() => setSelectedMessage(message)}
setSelectedMessage_row(messageId) ==
  /\ selectedMessage = NoMessage
  /\ messageId \in DOMAIN messageList
  /\ Cardinality(messageOps) < MaxRequests
  /\ selectedMessage' = messageList[messageId]
  /\ messageOps' = messageOps \cup MessageDetailModal_effect(messageList[messageId], "open")
  /\ UNCHANGED <<now, retryVars, storeVars, clientVars, sessionVars, catalogVars,
                 adminLogin, profileOp, signedOutUser, formSubmit,
                 messages, messageList, fetching, lastMark>>

\* onClose={() => setSelectedMessage(null)}
MessageDetailModal_onClose ==
  /\ selectedMessage # NoMessage
  /\ selectedMessage' = NoMessage
  /\ UNCHANGED <<now, retryVars, storeVars, clientVars, sessionVars, catalogVars,
                 adminLogin, profileOp, signedOutUser, formSubmit,
                 messages, messageList, messageOps, fetching, lastMark>>

\* the toggle button of the modal (for the selected message) or, with no
\* modal over the table, of a row:
\* onClick={() => message.is_read ? markAsUnread(message.id) : markAsRead(message.id)}
markAs_click(messageId) ==
  /\ Cardinality(messageOps) < MaxRequests
  /\ IF selectedMessage # NoMessage
       THEN messageId = selectedMessage.id
       ELSE messageId \in DOMAIN messageList
  /\ LET message == IF selectedMessage # NoMessage THEN selectedMessage
                    ELSE messageList[messageId]
         kind == IF message.is_read THEN "markAsUnread" ELSE "markAsRead"
     IN messageOps' = messageOps \cup {MarkRequest(kind, messageId, selectedMessage, "button")}
  /\ UNCHANGED <<now, retryVars, storeVars, clientVars, sessionVars, catalogVars,
                 adminLogin, profileOp, signedOutUser, formSubmit,
                 messages, messageList, selectedMessage, fetching, lastMark>>

\* the rest of markAsRead / markAsUnread after the await: if (error) throw
\* error (caught and logged); fetchMessages(); if (selectedMessage?.id ===
\* messageId) setSelectedMessage({ ...selectedMessage, is_read }), which
\* renders the modal with a new message object
markAs_resume(r, is_read, fails) ==
  /\ r \in messageOps
  /\ lastMark' = [kind |-> r.kind, id |-> r.id, cause |-> r.cause, failed |-> fails,
                  parity |-> 1 - lastMark.parity]
  /\ IF fails
       THEN /\ messageOps' = messageOps \ {r}
            /\ UNCHANGED <<messages, selectedMessage, fetching>>
       ELSE /\ fetching < MaxFetches
            /\ messages' = UpdateMessage(authUser, r.id, is_read)
            /\ fetching' = fetching + 1
            /\ IF r.sel # NoMessage /\ r.sel.id = r.id
                 THEN LET message == [r.sel EXCEPT !.is_read = is_read]
                      IN /\ selectedMessage' = message
                         /\ messageOps' = (messageOps \ {r})
                                            \cup MessageDetailModal_effect(message, r.kind)
                 ELSE /\ messageOps' = messageOps \ {r}
                      /\ UNCHANGED selectedMessage
  /\ UNCHANGED <<now, retryVars, storeVars, clientVars, sessionVars, catalogVars,
                 adminLogin, profileOp, signedOutUser, formSubmit, messageList>>

markAsRead_resume(r, fails) == r.kind = "markAsRead" /\ markAs_resume(r, TRUE, fails)

markAsUnread_resume(r, fails) == r.kind = "markAsUnread" /\ markAs_resume(r, FALSE, fails)

\* the rest of fetchMessages after the await: if (error) throw error
\* (caught and logged); setMessages(data || [])
fetchMessages_resume(fails) ==
  /\ fetching > 0
  /\ fetching' = fetching - 1
  /\ messageList' = IF fails THEN messageList ELSE SelectMessages(authUser)
  /\ UNCHANGED <<now, retryVars, storeVars, clientVars, sessionVars, catalogVars,
                 adminLogin, profileOp, signedOutUser, formSubmit,
                 messages, selectedMessage, messageOps, lastMark>>

\* MessageCenter is not mounted
IdleMessages ==
  /\ messages = SampleMessages
  /\ messageList = [m \in {} |-> NoMessage]
  /\ selectedMessage = NoMessage
  /\ messageOps = {}
  /\ fetching = 0
  /\ lastMark = NoMark

\* the forms at rest
IdleForms ==
  /\ adminLogin = NoAdminLogin
  /\ profileOp = NoProfileOp
  /\ signedOutUser = NULL
  /\ formSubmit = NoSubmit

\* the extra variables at rest
IdleUi == IdleForms /\ IdleMessages

(***************************************************************************)
(* Specifications                                                          *)
(***************************************************************************)
IdleSession ==
  /\ user = NULL
  /\ session = NULL
  /\ userProfile = NoProfile
  /\ loading = TRUE
  /\ isAdmin = FALSE
  /\ memoDeps = NULL
  /\ initPc = "getSession"
  /\ signOutPc = "idle"

IdleCatalog ==
  /\ products = [p \in {} |-> NoProduct]
  /\ orders = [o \in {} |-> [id |-> NULL, customer_id |-> NULL, status |-> NULL,
                               updated_at |-> 0]]
  /\ lastWrite = NoWrite
  /\ listing = NoListing

IdleClient ==
  /\ authUser = NULL
  /\ profileCache = [u \in {} |-> [profile |-> NoProfile, timestamp |-> 0]]
  /\ calls = [c \in Calls |-> IdleCall]
  /\ lastFetch = [u \in Users |-> [valid |-> FALSE, profile |-> NoProfile, at |-> 0]]
  /\ last = NoReturn
  /\ healRace = {}

EmptyStore ==
  /\ authUsers = {}
  /\ trigPending = {}
  /\ user_profiles = EmptyBag
  /\ promoted = {}

\* u2 signed up long ago and was promoted by create_admin_user; u1 has not
\* signed up yet
AdminStore ==
  /\ authUsers = {"u2"}
  /\ trigPending = {}
  /\ user_profiles = SetToBag({[NewProfileRow("u2", "u2") EXCEPT !.role = "admin"]})
  /\ promoted = {"u2"}

RetryInit ==
  /\ now = 0
  /\ op \in [1..(MAX_RETRIES + 1) -> OpOutcomes]
  /\ \E r \in 0..MAX_RETRIES :
       rt = [IdleRetry EXCEPT !.pc = "call", !.retries0 = r, !.retry.retries = r]
  /\ EmptyStore
  /\ IdleClient
  /\ IdleSession
  /\ IdleCatalog
  /\ IdleUi

RetryNext ==
  \/ retryOperation_invoke
  \/ retryOperation_resume
  \/ Tick

SpecRetry == RetryInit /\ [][RetryNext]_vars

Init ==
  /\ now = 0
  /\ op = [k \in 1..(MAX_RETRIES + 1) |-> "data"]
  /\ rt = IdleRetry
  /\ AdminStore
  /\ IdleClient
  /\ IdleSession
  /\ IdleCatalog
  /\ IdleUi

Next ==
  \/ \E u \in Users : auth_signUp(u)
  \/ \E u \in Users : handle_new_user(u)
  \/ \E u \in Users : create_admin_user(Email(u))
  \/ \E u \in Users : auth_signIn(u)
  \/ auth_signOut
  \/ \E c \in Calls, u \in Users : getUserProfile_start(c, u)
  \/ \E c \in Calls : getUserProfile_read(c)
  \/ \E c \in Calls : getUserProfile_readFails(c)
  \/ \E c \in Calls : getUserProfile_getUser(c)
  \/ \E c \in Calls : getUserProfile_insert(c)

Spec == Init /\ [][Next]_vars

\* both principals signed up long ago: the trigger has run, u2 was promoted
\* by create_admin_user
RegisteredStore ==
  /\ authUsers = Users
  /\ trigPending = {}
  /\ user_profiles = SetToBag({NewProfileRow("u1", "u1"),
                                [NewProfileRow("u2", "u2") EXCEPT !.role = "admin"]})
  /\ promoted = {"u2"}

CacheInit ==
  /\ now = 0
  /\ op = [k \in 1..(MAX_RETRIES + 1) |-> "data"]
  /\ rt = IdleRetry
  /\ RegisteredStore
  /\ IdleClient
  /\ IdleSession
  /\ IdleCatalog
  /\ IdleUi

CacheNext ==
  \/ \E u \in Users : create_admin_user(Email(u))
  \/ \E u \in Users : auth_signIn(u)
  \/ auth_signOut
  \/ \E c \in Calls, u \in Users : getUserProfile_start(c, u)
  \/ \E c \in Calls : getUserProfile_read(c)
  \/ \E c \in Calls : getUserProfile_readFails(c)
  \/ \E c \in Calls : getUserProfile_getUser(c)
  \/ \E c \in Calls : getUserProfile_insert(c)
  \/ Tick

SpecCache == CacheInit /\ [][CacheNext]_vars

\* the AuthProvider is mounted; the client may hold a persisted session
SessionInit ==
  /\ now = 0
  /\ op = [k \in 1..(MAX_RETRIES + 1) |-> "data"]
  /\ rt = IdleRetry
  /\ AdminStore
  /\ authUser \in authUsers \cup {NULL}
  /\ profileCache = [u \in {} |-> [profile |-> NoProfile, timestamp |-> 0]]
  /\ calls = [c \in Calls |-> IdleCall]
  /\ lastFetch = [u \in Users |-> [valid |-> FALSE, profile |-> NoProfile, at |-> 0]]
  /\ last = NoReturn
  /\ healRace = {}
  /\ IdleSession
  /\ IdleCatalog
  /\ IdleUi

SessionNext ==
  \/ \E u \in Users : auth_signUp(u)
  \/ \E u \in Users : handle_new_user(u)
  \/ \E u \in Users : create_admin_user(Email(u))
  \/ initializeAuth
  \/ initializeAuth_fails
  \/ \E u \in Users : onAuthStateChange(u)
  \/ signOut
  \/ signOut_resume
  \/ refreshProfile
  \/ \E c \in Calls : getUserProfile_read(c)
  \/ \E c \in Calls : getUserProfile_readFails(c)
  \/ \E c \in Calls : getUserProfile_getUser(c)
  \/ \E c \in Calls : getUserProfile_insert(c)

SpecSession == SessionInit /\ [][SessionNext]_vars

\* the storefront as the migration seeds it, with a sample product (active)
\* and a sample order (of no registered customer); both principals are
\* registered
CatalogInit ==
  /\ now = 0
  /\ op = [k \in 1..(MAX_RETRIES + 1) |-> "data"]
  /\ rt = IdleRetry
  /\ RegisteredStore
  /\ IdleClient
  /\ IdleSession
  /\ products = [p \in {"p1"} |-> [id |-> "p1", is_active |-> TRUE, updated_at |-> 0]]
  /\ orders = [o \in {"o0"} |-> [id |-> "o0", customer_id |-> NULL, status |-> "shipped",
                                   updated_at |-> 0]]
  /\ lastWrite = NoWrite
  /\ listing = NoListing
  /\ IdleUi

CatalogNext ==
  \/ \E u \in Users : auth_signIn(u)
  \/ auth_signOut
  \/ \E id \in ProductIds, a \in BOOLEAN : handleToggleActive(id, a)
  \/ \E id \in ProductIds, a \in BOOLEAN : ProductForm_onSubmit_update(id, a)
  \/ \E a \in BOOLEAN : ProductForm_onSubmit_insert(a)
  \/ \E id \in ProductIds : handleDelete(id)
  \/ \E a \in BOOLEAN : fetchProducts(a)
  \/ Tick

SpecCatalog == CatalogInit /\ [][CatalogNext]_vars

OrdersNext ==
  \/ \E u \in Users : auth_signIn(u)
  \/ auth_signOut
  \/ \E u \in Users : create_admin_user(Email(u))
  \/ \E u \in Users \cup {NULL} : orders_insert(u)
  \/ \E f \in OrderStatuses \cup {NULL} : fetchOrders(f)
  \/ \E o \in OrderIds, st \in OrderStatuses, f \in OrderStatuses \cup {NULL} :
       updateOrderStatus(o, st, f)

SpecOrders == CatalogInit /\ [][OrdersNext]_vars

\* u2 signed up long ago and was promoted; u1 has signed up and its trigger
\* has not run
PendingStore ==
  /\ authUsers = Users
  /\ trigPending = {"u1"}
  /\ user_profiles = SetToBag({[NewProfileRow("u2", "u2") EXCEPT !.role = "admin"]})
  /\ promoted = {"u2"}

ProfileInit ==
  /\ now = 0
  /\ op = [k \in 1..(MAX_RETRIES + 1) |-> "data"]
  /\ rt = IdleRetry
  /\ PendingStore
  /\ IdleClient
  /\ IdleSession
  /\ IdleCatalog
  /\ IdleUi

\* the profile of u1 and its cache entry with their three writers (the
\* select, the self-heal insert and updateUserProfile), one getUserProfile
\* call at a time
ProfileNext ==
  \/ \E u \in Users : auth_signIn(u)
  \/ auth_signOut
  \/ \E c \in {1}, u \in {"u1"} : getUserProfile_start(c, u)
  \/ \E c \in {1} : getUserProfile_read(c)
  \/ \E c \in {1} : getUserProfile_getUser(c)
  \/ \E c \in {1} : getUserProfile_insert(c)
  \/ \E u \in {"u1"}, upd \in ProfileUpdates, fails \in BOOLEAN :
       updateUserProfile(u, upd, fails)
  \/ Tick

SpecProfile == ProfileInit /\ [][ProfileNext]_vars

\* both principals registered (u1 a customer, u2 an admin) and the updates
\* either of them can send for either row
RoleNext ==
  \/ \E u \in Users : auth_signIn(u)
  \/ auth_signOut
  \/ \E u \in Users, upd \in ProfileUpdates, fails \in BOOLEAN :
       updateUserProfile(u, upd, fails)
  \/ Tick

SpecRole == CacheInit /\ [][RoleNext]_vars

\* MessageCenter mounted for the admin u2: useEffect has called
\* fetchMessages()
MessagesInit ==
  /\ now = 0
  /\ op = [k \in 1..(MAX_RETRIES + 1) |-> "data"]
  /\ rt = IdleRetry
  /\ RegisteredStore
  /\ authUser = "u2"
  /\ profileCache = [u \in {} |-> [profile |-> NoProfile, timestamp |-> 0]]
  /\ calls = [c \in Calls |-> IdleCall]
  /\ lastFetch = [u \in Users |-> [valid |-> FALSE, profile |-> NoProfile, at |-> 0]]
  /\ last = NoReturn
  /\ healRace = {}
  /\ IdleSession
  /\ IdleCatalog
  /\ IdleForms
  /\ messages = SampleMessages
  /\ messageList = [m \in {} |-> NoMessage]
  /\ selectedMessage = NoMessage
  /\ messageOps = {}
  /\ fetching = 1
  /\ lastMark = NoMark

MessagesNext ==
  \/ auth_signOut
  \/ \E m \in MsgIds : setSelectedMessage_row(m)
  \/ MessageDetailModal_onClose
  \/ \E m \in MsgIds : markAs_click(m)
  \/ \E r \in messageOps, fails \in BOOLEAN : markAsRead_resume(r, fails)
  \/ \E r \in messageOps, fails \in BOOLEAN : markAsUnread_resume(r, fails)
  \/ \E fails \in BOOLEAN : fetchMessages_resume(fails)

SpecMessages == MessagesInit /\ [][MessagesNext]_vars

\* clearProfileCache beside getUserProfile, one getUserProfile call at a time
ClearNext ==
  \/ \E u \in Users : auth_signIn(u)
  \/ auth_signOut
  \/ \E c \in {1}, u \in Users : getUserProfile_start(c, u)
  \/ \E c \in {1} : getUserProfile_read(c)
  \/ \E c \in {1} : getUserProfile_getUser(c)
  \/ \E c \in {1} : getUserProfile_insert(c)
  \/ \E u \in Users \cup {NULL} : clearProfileCache(u)
  \/ Tick

SpecClear == CacheInit /\ [][ClearNext]_vars

\* the AdminLogin form in front of a store nobody has signed up to yet
LoginInit ==
  /\ now = 0
  /\ op = [k \in 1..(MAX_RETRIES + 1) |-> "data"]
  /\ rt = IdleRetry
  /\ EmptyStore
  /\ IdleClient
  /\ IdleSession
  /\ IdleCatalog
  /\ IdleUi

LoginNext ==
  \/ \E u \in Users, accepted \in BOOLEAN : onLogin(u, accepted)
  \/ \E u \in Users : onSignup_rejected(u)
  \/ \E u \in Users, withSession \in BOOLEAN : onSignup_accepted(u, withSession)
  \/ signUp_verify
  \/ signUp_insert
  \/ \E rpcFails \in BOOLEAN : onSignup_createAdminUser(rpcFails)
  \/ \E u \in Users : handle_new_user(u)
  \/ auth_signOut

SpecLogin == LoginInit /\ [][LoginNext]_vars

\* the product form in the seeded storefront
FormNext ==
  \/ \E u \in Users : auth_signIn(u)
  \/ auth_signOut
  \/ \E p \in ProductIds \cup {NULL}, data \in FormData : ProductForm_handleSubmit(p, data)
  \/ \E id \in ProductIds : handleDelete(id)

SpecForm == CatalogInit /\ [][FormNext]_vars

(***************************************************************************)
(* App: the routes of AppContent and the guard ProtectedRoute, as functions *)
(* of the values useAuth() provides (user, isAdmin, loading)                *)
(***************************************************************************)
Spinner == [kind |-> "spinner", arg |-> NULL]
Navigate(to) == [kind |-> "navigate", arg |-> to]
Element(name) == [kind |-> "element", arg |-> name]

\* the child routes of "/admin/*" and the elements they render
AdminRoutes ==
  [dashboard |-> "AdminDashboard", products |-> "ProductManagement",
   orders |-> "OrderManagement", messages |-> "MessageCenter",
   analytics |-> "Analytics", settings |-> "Settings"]

AdminPages == DOMAIN AdminRoutes

\* a guard that asks for a user only
ProtectedRoute_UserOnly(children) ==
  IF loading THEN Spinner
  ELSE IF user = NULL THEN Navigate("/admin")
  ELSE children

\* if (loading) spinner; if (!user || !isAdmin) <Navigate to="/admin" replace />;
\* otherwise the children
ProtectedRoute(children) ==
  IF loading THEN Spinner
  ELSE IF user = NULL \/ ~isAdmin THEN Navigate("/admin")
  ELSE children

\* what AppContent renders at "/admin" (path = "") and at "/admin/<path>"
AppContent(path) ==
  IF loading THEN Spinner
  ELSE IF path = ""
         THEN IF user # NULL THEN Navigate("/admin/dashboard") ELSE Element("AdminLogin")
         ELSE ProtectedRoute(Element(AdminRoutes[path]))

\* the AuthProvider from its mount on, where getSession() and every
\* request of a getUserProfile call come back in the end
LoadingNext ==
  \/ \E u \in Users : auth_signUp(u)
  \/ initializeAuth
  \/ initializeAuth_fails
  \/ \E u \in Users : onAuthStateChange(u)
  \/ signOut
  \/ signOut_resume
  \/ \E c \in Calls : getUserProfile_read(c)
  \/ \E c \in Calls : getUserProfile_readFails(c)
  \/ \E c \in Calls : getUserProfile_getUser(c)
  \/ \E c \in Calls : getUserProfile_insert(c)

LoadingFairness ==
  /\ WF_vars(initializeAuth \/ initializeAuth_fails)
  /\ \A c \in Calls :
       /\ WF_vars(getUserProfile_read(c) \/ getUserProfile_readFails(c))
       /\ WF_vars(getUserProfile_getUser(c))
       /\ WF_vars(getUserProfile_insert(c))

SpecLoading == SessionInit /\ [][LoadingNext]_vars /\ LoadingFairness

(***************************************************************************)
(* Properties                                                              *)
(***************************************************************************)
\* a getUserProfile call for u returns in the step it is made in
ReturnsAtOnce(u) == last' # last /\ calls' = calls /\ last'.userId = u

\* a getUserProfile call for u is made and goes on to select the profile
GoesToRead(u) ==
  \E c \in Calls : calls[c].pc = "idle" /\ calls'[c].pc = "read" /\ calls'[c].userId = u

\* C1 (cache TTL hit): when a fetch of the profile of id u succeeded (by the
\* select or by the insert of the default profile) less than 5 minutes ago,
\* a getUserProfile(u) call issues no select and returns the profile that
\* fetch returned.
C1_CacheTtlHit ==
  [][\A u \in Users :
       (lastFetch[u].valid /\ now - lastFetch[u].at < 300000) =>
         /\ ~GoesToRead(u)
         /\ ReturnsAtOnce(u) =>
              /\ last'.outcome = "returned"
              /\ last'.fromCache
              /\ last'.reads = 0
              /\ last'.result = lastFetch[u].profile]_vars

\* a call for u1 was answered from the cache some time after the fetch and
\* before the entry is 5 minutes old
C1_Witness ==
  /\ last.fromCache
  /\ last.userId = "u1"
  /\ lastFetch["u1"].valid
  /\ last.result = lastFetch["u1"].profile
  /\ now > lastFetch["u1"].at
  /\ now - lastFetch["u1"].at < 300000

\* the cache holds an entry for u that is 5 minutes old or older
StaleEntry(u) ==
  u \in DOMAIN profileCache /\ now - profileCache[u].timestamp >= 300000

\* C2 (cache staleness bound): when the cached entry of id u is 5 minutes old
\* or older, a getUserProfile(u) call does not return at once with the cached
\* object; and every call that was not answered from the cache has issued
\* exactly one select on user_profiles when it settles.
C2_StalenessBound ==
  [][/\ \A u \in Users : StaleEntry(u) => ~ReturnsAtOnce(u)
     /\ (last' # last /\ ~last'.fromCache) => last'.reads = 1
     /\ \A c \in Calls : calls'[c].reads <= 1]_vars

\* a call for u1 made when the entry of u1 had expired is about to select
C2_Witness ==
  \E c \in Calls :
    /\ calls[c].pc = "read"
    /\ calls[c].userId = "u1"
    /\ StaleEntry("u1")

\* no getUserProfile call for u is in flight
NoCallInFlight(u) == \A c \in Calls : calls[c].pc = "idle" \/ calls[c].userId # u

\* C3 (self-heal idempotence): once two concurrent getUserProfile calls that
\* both found no row of a new principal u have settled and the provisioning
\* trigger has run, user_profiles holds exactly one row of u, and its role
\* is 'customer' (unless create_admin_user was run for u).
C3_SelfHealIdempotent ==
  \A u \in healRace :
    (u \in authUsers /\ u \notin trigPending /\ NoCallInFlight(u)) =>
      /\ RowCount(user_profiles, u) = 1
      /\ \A r \in BagToSet(user_profiles) :
           r.id = u => (r.role = "customer" \/ u \in promoted)

\* two calls for u1 raced, one insert met the primary key, one row is left
C3_Witness ==
  /\ "u1" \in healRace
  /\ "u1" \notin trigPending
  /\ NoCallInFlight("u1")
  /\ last.userId = "u1"
  /\ last.error = "23505"
  /\ RowCount(user_profiles, "u1") = 1

\* C4 (self-heal write is an upsert): when a row of the principal came into
\* existence between a call's not-found select and its write, the call still
\* returns the profile and one row is left.
C4_SelfHealUpsert ==
  [][\A c \in Calls :
       (/\ calls[c].pc = "insert"
        /\ ~calls[c].rowAtRead
        /\ authUser = calls[c].userId
        /\ PkConflict(user_profiles, calls[c].userId)
        /\ calls'[c].pc = "idle") =>
         /\ last'.outcome = "returned"
         /\ last'.result.id = calls[c].userId
         /\ RowCount(user_profiles', calls[c].userId) = 1]_vars

\* the insert of a call that had found no row met the row the trigger made
C4_Witness ==
  /\ last.userId = "u1"
  /\ last.outcome = "threw"
  /\ last.error = "23505"
  /\ authUser = "u1"
  /\ RowCount(user_profiles, "u1") = 1

\* C5 (admin derivation): isAdmin is true exactly when userProfile is not
\* null and its role is 'admin'.
C5_AdminDerivation ==
  isAdmin <=> (userProfile # NoProfile /\ userProfile.role = "admin")

\* the profile of the admin is loaded and isAdmin is true
C5_Witness ==
  /\ userProfile # NoProfile
  /\ userProfile.role = "admin"
  /\ isAdmin
  /\ ~loading

\* retryOperation was called with its defaults and the operation throws on
\* its first two invocations and resolves on the third
FailsTwice ==
  /\ rt.retries0 = 3
  /\ op[1] = "throw"
  /\ op[2] = "throw"
  /\ op[3] = "data"

\* C6 (retry backoff): for an operation that throws twice and then resolves,
\* retryOperation called with 3 retries and a delay of 1000 ms returns the
\* result of the third invocation; it arms a wait of 1000 ms before the
\* second invocation and of 2000 ms before the third, so that at least
\* 3000 ms pass between the first and the third.
C6_RetryBackoff ==
  FailsTwice =>
    /\ rt.pc # "thrown"
    /\ rt.invocations <= 3
    /\ rt.pc = "wait" =>
         rt.retry.wakeAt - rt.times[rt.invocations]
           = (IF rt.invocations = 1 THEN 1000 ELSE 2000)
    /\ rt.pc = "returned" =>
         /\ rt.out = <<"data", 3>>
         /\ rt.times[2] - rt.times[1] >= 1000
         /\ rt.times[3] - rt.times[2] >= 2000
         /\ rt.times[3] - rt.times[1] >= 3000

\* the third invocation has returned
C6_Witness == FailsTwice /\ rt.pc = "returned" /\ rt.invocations = 3

\* retryOperation was called with its defaults and the operation throws on
\* every invocation
AlwaysFails == rt.retries0 = 3 /\ \A k \in DOMAIN op : op[k] = "throw"

\* C7 (retry exhaustion), as the program has it: for an operation that
\* always throws, retryOperation called with 3 retries invokes it exactly 4
\* times (the first attempt and 3 retries, after waits of at least 1000, 2000
\* and 4000 ms) and then rethrows the error of the last invocation; the
\* retries left never go below 0, so it stops.
C7_RetryExhaustion ==
  AlwaysFails =>
    /\ rt.pc # "returned"
    /\ rt.invocations <= 4
    /\ rt.retry.retries >= 0
    /\ rt.pc = "thrown" =>
         /\ rt.invocations = 4
         /\ rt.out = <<"error", 4>>
         /\ rt.times[2] - rt.times[1] >= 1000
         /\ rt.times[3] - rt.times[2] >= 2000
         /\ rt.times[4] - rt.times[3] >= 4000

\* the error was rethrown
C7_Witness == AlwaysFails /\ rt.pc = "thrown"

\* C7 as stated: exactly 3 invocations, then the error of the last one
C7_ThreeInvocations ==
  AlwaysFails =>
    /\ rt.pc # "returned"
    /\ rt.invocations <= 3
    /\ rt.pc = "thrown" => (rt.invocations = 3 /\ rt.out = <<"error", 3>>)

\* C8 (product write policy): an update of an existing products row sent in
\* the session of a principal without an admin profile row ends with an
\* error and leaves the row as it was; sent in the session of an admin it
\* ends without error and changes updated_at (unless the row was written in
\* the same millisecond before).
C8_ProductWritePolicy ==
  (lastWrite.op = "update" /\ lastWrite.before # NoProduct /\ lastWrite.by # NULL) =>
    IF lastWrite.byAdmin
      THEN /\ lastWrite.error = NULL
           /\ lastWrite.alert = "success"
           /\ lastWrite.after.updated_at = lastWrite.at
           /\ (lastWrite.after.updated_at # lastWrite.before.updated_at
                 \/ lastWrite.before.updated_at = lastWrite.at)
      ELSE /\ lastWrite.error # NULL
           /\ lastWrite.alert = "failed"
           /\ lastWrite.after = lastWrite.before

\* customer u1 sent an update of an existing row: no error, no change, and
\* the component reported success
C8_Witness ==
  /\ lastWrite.op = "update"
  /\ lastWrite.by = "u1"
  /\ ~lastWrite.byAdmin
  /\ lastWrite.before # NoProduct
  /\ lastWrite.error = NULL
  /\ lastWrite.after = lastWrite.before
  /\ lastWrite.alert = "success"

\* C9 (public browsing): a products listing issued without a session holds
\* only rows with is_active = true.
C9_PublicBrowsing ==
  (listing.table = "products" /\ listing.by = NULL) =>
    \A r \in listing.rows : r.is_active

\* an anonymous listing without the client's is_active filter returned rows,
\* and an inactive row was withheld from it
C9_Witness ==
  /\ listing.table = "products"
  /\ listing.by = NULL
  /\ ~listing.onlyActive
  /\ listing.rows # {}
  /\ \E r \in listing.withheld : ~r.is_active

\* C10 (order visibility): an orders select issued in the session of a
\* principal without an admin profile row returns no order of another
\* customer; issued in the session of an admin it returns every order the
\* query asks for.
C10_OrderVisibility ==
  listing.table = "orders" =>
    /\ (listing.by # NULL /\ ~listing.byAdmin) =>
         \A r \in listing.rows : r.customer_id = listing.by
    /\ listing.byAdmin => listing.withheld = {}

\* customer u1 listed orders: the order of u1 was returned and the order of
\* another customer was withheld
C10_Witness ==
  /\ listing.table = "orders"
  /\ listing.by = "u1"
  /\ ~listing.byAdmin
  /\ \E r \in listing.rows : r.customer_id = "u1"
  /\ \E r \in listing.withheld : r.customer_id = "u2"

\* getUserProfile(s) was called for loadUserProfile in this step: the call
\* is in flight, or it was answered from the cache and loadUserProfile has
\* run to its end
LoadTriggered(s) ==
  \/ \E c \in Calls :
       /\ calls[c].pc = "idle"
       /\ calls'[c].pc = "read"
       /\ calls'[c].userId = s
       /\ calls'[c].caller = "load"
  \/ /\ last'.parity # last.parity
     /\ last'.userId = s
     /\ last'.fromCache
     /\ userProfile' = last'.result
     /\ loading' = FALSE

\* C11: every auth-state-changed notification that carries a session with a
\* principal sets user and session to it and triggers a profile load for
\* that principal; every notification with no principal sets user (and
\* session) to null, userProfile to null and loading to false.
C11_AuthStateChanged ==
  [][/\ \A s \in Users :
          onAuthStateChange(s) => user' = s /\ session' = s /\ LoadTriggered(s)
     /\ signOut =>
          /\ user' = NULL
          /\ session' = NULL
          /\ userProfile' = NoProfile
          /\ loading' = FALSE
          /\ calls' = calls]_vars

\* a sign-in of u1 was notified before initializeAuth ran, and the load it
\* started is in flight
C11_Witness ==
  /\ initPc = "getSession"
  /\ user = "u1"
  /\ session = "u1"
  /\ \E c \in Calls : calls[c] = StartedCall("u1", "load")

\* C12: when the auth subsystem rejects signIn or signUp, the operation
\* returns a result object carrying the error and does not throw to the
\* caller.
C12_FailuresAreValues ==
  adminLogin.rejected =>
    /\ adminLogin.outcome = "returned"
    /\ adminLogin.resultError # NULL

\* the auth subsystem rejected a sign-up: signUp threw, and the form shows
\* the message of its outer catch
C12_Witness ==
  /\ adminLogin.op = "signUp"
  /\ adminLogin.rejected
  /\ adminLogin.outcome = "threw"
  /\ adminLogin.error = "An unexpected error occurred"

\* C13: whenever getUserProfile throws during a profile load started by the
\* AuthProvider, the exception is caught: userProfile becomes null, loading
\* becomes false, and user and session keep their values.
C13_LoadFailureDegrades ==
  [][\A c \in Calls :
       ( /\ calls[c].caller = "load"
         /\ calls[c].pc # "idle"
         /\ calls'[c].pc = "idle"
         /\ last'.parity # last.parity
         /\ last'.outcome = "threw" )
       => /\ userProfile' = NoProfile
          /\ loading' = FALSE
          /\ user' = user
          /\ session' = session]_vars

\* the profile of u2 was loaded before, and the load for u1 threw
C13_Witness ==
  /\ "u2" \in DOMAIN profileCache
  /\ last.outcome = "threw"
  /\ last.userId = "u1"
  /\ user = "u1"
  /\ session = "u1"
  /\ userProfile = NoProfile
  /\ loading = FALSE

\* C14: if the select fails with an error other than not-found,
\* getUserProfile makes no insert attempt and throws that error; if the
\* select reports not-found and the auth subsystem returns no current
\* principal, it makes no insert attempt and throws the not-found error; if
\* the self-heal insert fails, it throws the insert error.
C14_ErrorsPropagate ==
  [][\A c \in Calls :
       /\ getUserProfile_readFails(c) =>
            /\ calls'[c].pc = "idle"
            /\ user_profiles' = user_profiles
            /\ last'.outcome = "threw"
            /\ last'.error = "500"
       /\ (getUserProfile_getUser(c) /\ authUser = NULL) =>
            /\ calls'[c].pc = "idle"
            /\ user_profiles' = user_profiles
            /\ last'.outcome = "threw"
            /\ last'.error = "PGRST116"
       /\ (getUserProfile_insert(c) /\ user_profiles' = user_profiles) =>
            /\ calls'[c].pc = "idle"
            /\ last'.outcome = "threw"
            /\ last'.error = IF authUser # calls[c].userId THEN "42501" ELSE "23505"]_vars

\* a call found no row, found no current principal, and threw not-found
\* after its one select
C14_Witness ==
  /\ authUser = NULL
  /\ last.outcome = "threw"
  /\ last.error = "PGRST116"
  /\ last.reads = 1
  /\ \A c \in Calls : calls[c].pc = "idle"

\* the row with the fields given in upd overwritten and updated_at set to at
Overwritten(row, upd, at) ==
  [f \in DOMAIN row |->
     IF f = "updated_at" THEN at ELSE IF f \in DOMAIN upd THEN upd[f] ELSE row[f]]

\* C15: updateUserProfile(userId, updates): on store success the stored row
\* is the previous row overwritten by updates with updated_at refreshed, the
\* cache entry of userId is overwritten with the returned row and the
\* current timestamp, and the row is returned; on a store error that error
\* is thrown to the caller (and neither the table nor the cache changes).
C15_UpdateProfile ==
  [][(profileOp'.parity # profileOp.parity /\ profileOp'.op = "update") =>
       LET id == profileOp'.userId
           upd == profileOp'.updates
       IN IF profileOp'.outcome = "returned"
            THEN \E r \in BagToSet(user_profiles) :
                   /\ r.id = id
                   /\ BagToSet(user_profiles') =
                        (BagToSet(user_profiles) \ {r}) \cup {Overwritten(r, upd, now)}
                   /\ profileOp'.result = Overwritten(r, upd, now)
                   /\ DOMAIN profileCache' = DOMAIN profileCache \cup {id}
                   /\ profileCache'[id] =
                        [profile |-> Overwritten(r, upd, now), timestamp |-> now]
                   /\ \A u \in DOMAIN profileCache \ {id} : profileCache'[u] = profileCache[u]
            ELSE /\ profileOp'.outcome = "threw"
                 /\ profileOp'.error \in {"500", "PGRST116"}
                 /\ profileOp'.error = "PGRST116" =>
                      ~\E r \in BagToSet(user_profiles) : r.id = id /\ authUser = id
                 /\ user_profiles' = user_profiles
                 /\ profileCache' = profileCache]_vars

\* u1 renamed itself some time after its row was made: the row, the cache
\* entry and the returned value agree
C15_Witness ==
  /\ profileOp.op = "update"
  /\ profileOp.outcome = "returned"
  /\ profileOp.result.full_name = "Renamed"
  /\ profileOp.result.updated_at > profileOp.result.created_at
  /\ profileOp.result \in BagToSet(user_profiles)
  /\ "u1" \in DOMAIN profileCache
  /\ profileCache["u1"].profile = profileOp.result

\* C16: clearProfileCache(userId) removes exactly the entry of userId and
\* leaves every other entry as it was; clearProfileCache() removes all
\* entries; the table is not touched, and a getUserProfile call for an id
\* that has no entry selects from the store.
C16_Invalidate ==
  [][/\ (profileOp'.parity # profileOp.parity /\ profileOp'.op = "clear") =>
          /\ DOMAIN profileCache' =
               IF profileOp'.userId # NULL THEN DOMAIN profileCache \ {profileOp'.userId}
               ELSE {}
          /\ \A u \in DOMAIN profileCache' : profileCache'[u] = profileCache[u]
          /\ user_profiles' = user_profiles
     /\ \A u \in Users :
          (u \notin DOMAIN profileCache /\ \E c \in Calls : getUserProfile_start(c, u)) =>
            /\ GoesToRead(u)
            /\ last' = last]_vars

\* the entry of u1, fetched earlier, was removed by clearProfileCache('u1')
\* and the entry of u2 is still there
C16_Witness ==
  /\ profileOp.op = "clear"
  /\ profileOp.userId = "u1"
  /\ lastFetch["u1"].valid
  /\ "u1" \notin DOMAIN profileCache
  /\ "u2" \in DOMAIN profileCache

\* C17: after signOut() completes, the profile cache holds no entry for the
\* principal that was signed in (so that a getUserProfile for it after a
\* later sign-in selects from the store even within the cache duration).
C17_SignOutInvalidates ==
  [][signOut_resume => signedOutUser \notin DOMAIN profileCache']_vars

\* u2 signed out and, signOut() completed, signed in again: the profile load
\* of the new session was answered from the cache entry of the old one,
\* without a select
C17_Witness ==
  /\ signedOutUser = "u2"
  /\ signOutPc = "idle"
  /\ authUser = "u2"
  /\ user = "u2"
  /\ last.userId = "u2"
  /\ last.fromCache
  /\ last.reads = 0
  /\ userProfile = last.result
  /\ userProfile # NoProfile

\* C18 (bounded staleness): whenever getUserProfile returns a profile taken
\* from the cache, it is the profile of an entry written (by the select, the
\* self-heal insert or updateUserProfile, each stamping the entry with the
\* instant of the write) strictly less than 5 minutes before the return.
C18_BoundedStaleness ==
  [][/\ \A u \in Users :
          (ReturnsAtOnce(u) /\ last'.fromCache) =>
            /\ u \in DOMAIN profileCache
            /\ last'.result = profileCache[u].profile
            /\ now - profileCache[u].timestamp >= 0
            /\ now - profileCache[u].timestamp < 5 * 60 * 1000
     /\ \A u \in DOMAIN profileCache' :
          (u \notin DOMAIN profileCache \/ profileCache'[u] # profileCache[u]) =>
            profileCache'[u].timestamp = now]_vars

\* a call for u1 was answered from the entry updateUserProfile wrote some
\* time before
C18_Witness ==
  /\ last.userId = "u1"
  /\ last.fromCache
  /\ profileOp.op = "update"
  /\ profileOp.outcome = "returned"
  /\ last.result = profileOp.result
  /\ "u1" \in DOMAIN profileCache
  /\ profileCache["u1"].profile = last.result
  /\ now > profileCache["u1"].timestamp

\* C19: whenever a sign-up through the AdminLogin form ends by reporting
\* 'Admin account created successfully', create_admin_user(email) was
\* invoked after signUp returned, and the user_profiles row of that email
\* exists with role = 'admin'.
C19_AdminPromotion ==
  adminLogin.success =>
    /\ adminLogin.op = "signUp"
    /\ adminLogin.outcome = "returned"
    /\ adminLogin.rpcCalled
    /\ \E r \in BagToSet(user_profiles) :
         r.email = Email(adminLogin.u) /\ r.role = "admin"

\* the form reports success for u1 after create_admin_user ran, and no row
\* of u1 exists
C19_Witness ==
  /\ adminLogin.success
  /\ adminLogin.u = "u1"
  /\ adminLogin.outcome = "returned"
  /\ adminLogin.rpcCalled
  /\ ~\E r \in BagToSet(user_profiles) : r.email = Email("u1")

\* the input violates the schema: empty name, description shorter than 10
\* characters, price below 0.01 (1 hundredth), stock negative or not an
\* integer (a multiple of 10 tenths), or no category
ViolatesSchema(d) ==
  \/ d.name = ""
  \/ Len(d.description) < 10
  \/ d.price.isNaN
  \/ d.price.value < 1
  \/ d.stock.isNaN
  \/ d.stock.value < 0
  \/ d.stock.value % 10 # 0
  \/ d.category_id = ""

\* C20: when the product form input violates the schema, the submit
\* handler issues no insert or update to products, and the rows of products
\* are unchanged.
C20_ValidationFirst ==
  [][(formSubmit'.parity # formSubmit.parity /\ ViolatesSchema(formSubmit'.data)) =>
       /\ ~formSubmit'.sent
       /\ products' = products
       /\ lastWrite' = lastWrite]_vars

\* the admin submitted the form for p1 with a description that is too
\* short, after a good submit had been written: no further write was sent
C20_Witness ==
  /\ IsAdminSession(authUser)
  /\ formSubmit.parity = 0
  /\ formSubmit.product = "p1"
  /\ formSubmit.data.description = "too short"
  /\ ~formSubmit.valid
  /\ ~formSubmit.sent
  /\ lastWrite.op = "update"
  /\ lastWrite.id = "p1"
  /\ lastWrite.error = NULL

\* retryOperation was called with its defaults and the first invocation of
\* the operation resolves to a response carrying a policy rejection
DeniedAtOnce == rt.retries0 = 3 /\ op[1] = "denied"

\* C21: a store operation run through retryOperation that completes with an
\* authorization-denied error result is invoked exactly once, with no
\* backoff wait, and the error response is what the caller gets; at any
\* invocation, a wait is armed only after the operation threw.
C21_DeniedNotRetried ==
  /\ DeniedAtOnce =>
       /\ rt.invocations <= 1
       /\ rt.pc \in {"call", "returned"}
       /\ rt.pc = "returned" =>
            /\ rt.invocations = 1
            /\ rt.out = <<"denied", 1>>
            /\ rt.retry = RetryDefaults
  /\ rt.pc = "wait" => op[rt.invocations] = "throw"

\* the denied response was returned after the one invocation
C21_Witness == DeniedAtOnce /\ rt.pc = "returned" /\ rt.invocations = 1

\* C22: when signUp succeeds and the auth subsystem returns a user, signUp
\* selects the user_profiles row of that id before it returns; if the row
\* is missing it tries to insert one with role 'customer', the email, and
\* full_name = fullName or email; it returns the auth result whether or not
\* that insert succeeds, and it never writes role 'admin'.
C22_SignUpVerifies ==
  [][/\ (adminLogin.outcome # "returned" /\ adminLogin'.outcome = "returned"
          /\ adminLogin'.op = "signUp") =>
            /\ adminLogin'.reads = 1
            /\ adminLogin'.resultError = NULL
     /\ signUp_verify =>
          /\ user_profiles' = user_profiles
          /\ (~\E r \in BagToSet(user_profiles) : r.id = adminLogin.u) =>
               adminLogin'.pc = "insert"
     /\ signUp_insert =>
          /\ adminLogin'.outcome = "returned"
          /\ adminLogin'.insertRow.id = adminLogin.u
          /\ adminLogin'.insertRow.email = Email(adminLogin.u)
          /\ adminLogin'.insertRow.role = "customer"
          /\ adminLogin'.insertRow.full_name =
               (IF MetaFullName(adminLogin.u) # NULL THEN MetaFullName(adminLogin.u)
                ELSE Email(adminLogin.u))
          /\ BagToSet(user_profiles') \subseteq BagToSet(user_profiles) \cup {adminLogin'.insertRow}
          /\ BagToSet(user_profiles) \subseteq BagToSet(user_profiles')]_vars

\* signUp returned its result after the verification select found no row
\* and the insert of the default row was refused
C22_Witness ==
  /\ adminLogin.op = "signUp"
  /\ adminLogin.outcome = "returned"
  /\ adminLogin.reads = 1
  /\ adminLogin.insertRow.role = "customer"
  /\ adminLogin.insertError = "42501"

\* C23 (no stale profile): in every reachable state userProfile is null or
\* the profile of the current user, and isAdmin is not true on the basis of
\* another principal's profile.
C23_NoStaleProfile ==
  /\ userProfile = NoProfile \/ (user # NULL /\ userProfile.id = user)
  /\ isAdmin => (user # NULL /\ userProfile.id = user)

\* every profile load has completed, the session is that of u2, and
\* userProfile is the profile of u1
C23_Witness ==
  /\ user = "u2"
  /\ session = "u2"
  /\ userProfile.id = "u1"
  /\ loading = FALSE
  /\ signOutPc = "idle"
  /\ \A c \in Calls : calls[c].pc = "idle"

\* C24 (loading terminates): the AuthProvider starts with loading = true,
\* and when getSession() and the profile fetches come back, by returning or
\* by throwing, loading becomes false and stays false, with or without a
\* session and whether the profile fetch succeeds or fails.
C24_LoadingTerminates == <>[](loading = FALSE)

\* initializeAuth found the session of u2, the profile fetch it started
\* threw, and loading is false
C24_Witness ==
  /\ initPc = "done"
  /\ user # NULL
  /\ last.outcome = "threw"
  /\ userProfile = NoProfile
  /\ loading = FALSE

\* C25 (loading covers in-flight profile loads): while user is non-null
\* and the profile load an auth-state-changed notification started for that
\* user has not completed, loading is true; here, for the state right after
\* the notification.
C25_LoadingCoversLoad ==
  [][\A s \in Users :
       ( /\ onAuthStateChange(s)
         /\ \E c \in Calls : calls[c].pc = "idle" /\ calls'[c] = StartedCall(s, "load") )
       => loading' = TRUE]_vars

\* initialization is over, the admin u2 has signed in since, and the load
\* of its profile is in flight: loading is false, userProfile is null and
\* isAdmin is false
C25_Witness ==
  /\ initPc = "done"
  /\ user = "u2"
  /\ HasAdminRow("u2")
  /\ \E c \in Calls : calls[c] = StartedCall("u2", "load")
  /\ loading = FALSE
  /\ userProfile = NoProfile
  /\ isAdmin = FALSE

\* C26 (admin route guard): a protected admin page is rendered only when
\* loading is false, user is non-null and isAdmin is true; with loading
\* false and (user null or isAdmin false) the guard redirects to the admin
\* login route "/admin".
C26_AdminRouteGuard ==
  \A p \in AdminPages :
    /\ AppContent(p) = Element(AdminRoutes[p])
         => (loading = FALSE /\ user # NULL /\ isAdmin)
    /\ (loading = FALSE /\ (user = NULL \/ ~isAdmin))
         => /\ AppContent(p) = Navigate("/admin")
            /\ ProtectedRoute(Element(AdminRoutes[p])) = Navigate("/admin")

\* a customer is signed in and its profile is loaded: the guard redirects
\* every protected page to "/admin"
C26_Witness ==
  /\ loading = FALSE
  /\ user # NULL
  /\ userProfile # NoProfile
  /\ userProfile.id = user
  /\ userProfile.role = "customer"
  /\ isAdmin = FALSE
  /\ \A p \in AdminPages : AppContent(p) = Navigate("/admin")

\* C27 (failed getUserProfile leaves the cache unchanged): the step in which
\* a getUserProfile call throws (read error other than not-found, not-found
\* with no current principal, or self-heal insert error), and every earlier
\* step of a call that has not returned, leaves profileCache as it was: no
\* entry is added, removed or re-stamped, for any id.
C27_FailureKeepsCache ==
  [][/\ (last'.parity # last.parity /\ last'.outcome = "threw")
          => profileCache' = profileCache
     /\ (\E c \in Calls : calls'[c] # calls[c] /\ calls'[c].pc # "idle")
          => profileCache' = profileCache]_vars

\* a self-heal insert lost against a concurrent one: the call threw 23505
\* while the cache holds the entry the other call made for the same id
C27_Witness ==
  /\ last.outcome = "threw"
  /\ last.error = "23505"
  /\ last.userId \in DOMAIN profileCache
  /\ profileCache[last.userId].profile.id = last.userId

\* C28 (no self-promotion through profile update): an update of
\* user_profiles sent by a principal whose own row has role 'customer'
\* leaves every row that was not an admin's without the role 'admin'.
C28_NoSelfPromotion ==
  [][( /\ profileOp' # profileOp
       /\ profileOp'.op = "update"
       /\ \E r \in BagToSet(user_profiles) : r.id = authUser /\ r.role = "customer" )
     => \A u \in Users :
          (\E r \in BagToSet(user_profiles') : r.id = u /\ r.role = "admin")
            => HasAdminRow(u)]_vars

\* the customer u1, never promoted by create_admin_user, has updated its own
\* row with { role: 'admin' } and holds an admin's row
C28_Witness ==
  /\ authUser = "u1"
  /\ "u1" \notin promoted
  /\ profileOp.op = "update"
  /\ profileOp.userId = "u1"
  /\ profileOp.updates = [role |-> "admin"]
  /\ profileOp.outcome = "returned"
  /\ profileOp.result.role = "admin"
  /\ HasAdminRow("u1")

\* C29 (mark-unread is stable): once markAsUnread has set is_read to false,
\* the store's is_read of the message becomes true again only through a
\* markAsRead call the user caused (the toggle button, or opening the
\* message), also when markAsUnread was called from the detail modal for
\* the selected message.
C29_UnreadStable ==
  [][\A m \in MsgIds :
       (~messages[m].is_read /\ messages'[m].is_read)
         => /\ lastMark' # lastMark
            /\ lastMark'.kind = "markAsRead"
            /\ lastMark'.id = m
            /\ lastMark'.cause \in {"button", "open"}]_vars

\* Mark Unread was pressed in the modal of m2: markAsUnread succeeded, the
\* modal was rendered with the unread copy, its effect called markAsRead,
\* and the store has is_read = true again with no call left in flight
C29_Witness ==
  /\ lastMark.kind = "markAsRead"
  /\ lastMark.id = "m2"
  /\ lastMark.cause = "markAsUnread"
  /\ ~lastMark.failed
  /\ messages["m2"].is_read
  /\ selectedMessage = [id |-> "m2", is_read |-> TRUE]
  /\ messageOps = {}
  /\ fetching = 0

\* C30 (promotion is visible to the client): a getUserProfile(u) call made
\* after create_admin_user has promoted u returns a profile with role
\* 'admin', whatever calls for u came before the promotion; here, for the
\* calls that return in the step they are made in.
C30_PromotionVisible ==
  [][\A u \in Users :
       ( /\ u \in promoted
         /\ HasAdminRow(u)
         /\ ReturnsAtOnce(u)
         /\ last'.outcome = "returned" )
       => last'.result.role = "admin"]_vars

\* u1 fetched its profile as a customer, was promoted by create_admin_user,
\* and its next getUserProfile call returned the cached customer profile
C30_Witness ==
  /\ authUser = "u1"
  /\ "u1" \in promoted
  /\ HasAdminRow("u1")
  /\ last.userId = "u1"
  /\ last.outcome = "returned"
  /\ last.fromCache
  /\ last.result.role = "customer"

====
